---- MODULE Spec2Model ----
(***************************************************************************)
(* Model of llm-queue-proxy: the session repository (memory and SQLite    *)
(* backends), the usage decoder of the session manager, the single-session *)
(* status handler, the proxy handler and the rate-limited request queue.   *)
(***************************************************************************)
EXTENDS Integers, Sequences, FiniteSets, TLC

(***************************************************************************)
(* Bounds of the model.                                                    *)
(***************************************************************************)
\* number of concurrent callers of the repository
NumProcs == 2
\* total number of repository calls issued in one behaviour
MaxCalls == 3

\* requests submitted to the queue
NumReqs == 2
\* capacity of Queue.ch (1000 in NewQueue), scaled
ChanCap == 2
\* time.Minute in clock ticks, scaled
Minute == 2
\* ticks the clock may advance while nobody sleeps
MaxTime == 0
\* direct calls of the repository's Close
MaxCloses == 2
\* segments of a request path
MaxSegs == 5

Procs == 1..NumProcs
NoProc == 0
IDs == {"a", "b"}
Backends == {"memory", "sqlite"}

(***************************************************************************)
(* entities.SessionData and entities.TokenUsage                            *)
(***************************************************************************)
SessionData(id, p, c, t, n) ==
    [SessionID |-> id, TotalPromptTokens |-> p, TotalCompletionTokens |-> c,
     TotalTokens |-> t, RequestCount |-> n]

\* a session made without its id
ZeroSession_anonymous(id) == SessionData("", 0, 0, 0, 0)

ZeroSession(id) == SessionData(id, 0, 0, 0, 0)

TokenUsage(p, c, t) ==
    [PromptTokens |-> p, CompletionTokens |-> c, TotalTokens |-> t]

NoUsage == TokenUsage(0, 0, 0)

(***************************************************************************)
(* Response bodies handed to the usage decoder.  A body is either not      *)
(* valid JSON, or a JSON object whose "usage" object carries the fields    *)
(* in `present` with the integer values `vals`.                            *)
(***************************************************************************)
UsageFields == {"prompt_tokens", "completion_tokens", "total_tokens"}

Body(valid, present, p, c, t) ==
    [valid |-> valid, present |-> present,
     vals |-> [f \in UsageFields |->
                 IF f = "prompt_tokens" THEN p
                 ELSE IF f = "completion_tokens" THEN c ELSE t]]

Bodies ==
    { Body(FALSE, {}, 0, 0, 0),                       \* {invalid
      Body(TRUE, {}, 0, 0, 0),                        \* {"model":"x"}
      Body(TRUE, UsageFields, 10, 0, 10),
      Body(TRUE, UsageFields, 5, 0, 5),
      Body(TRUE, {"total_tokens"}, 0, 0, 10),         \* {"usage":{"total_tokens":10}}
      Body(TRUE, {"prompt_tokens", "total_tokens"}, -5, 0, 10),
      Body(TRUE, UsageFields, 10, 20, 0) }

\* json.Unmarshal into struct{Usage TokenUsage}: a field that is absent keeps
\* its zero value
JSONField(b, f) == IF f \in b.present THEN b.vals[f] ELSE 0

\* a decoder that hands out the usage object also when its total is zero
ParseTokenUsageFromResponse_zeroTotal(b) ==
    IF ~b.valid
    THEN [err |-> TRUE, isNil |-> TRUE, usage |-> NoUsage]
    ELSE [err |-> FALSE, isNil |-> FALSE,
          usage |-> TokenUsage(JSONField(b, "prompt_tokens"),
                               JSONField(b, "completion_tokens"),
                               JSONField(b, "total_tokens"))]

\* a decoder that hands out what json.Unmarshal had filled in when it failed
ParseTokenUsageFromResponse_partial(b) ==
    IF ~b.valid
    THEN [err |-> FALSE, isNil |-> FALSE, usage |-> TokenUsage(0, 0, 1)]
    ELSE LET u == TokenUsage(JSONField(b, "prompt_tokens"),
                             JSONField(b, "completion_tokens"),
                             JSONField(b, "total_tokens"))
         IN  IF u.TotalTokens = 0
             THEN [err |-> FALSE, isNil |-> TRUE, usage |-> NoUsage]
             ELSE [err |-> FALSE, isNil |-> FALSE, usage |-> u]

ParseTokenUsageFromResponse(b) ==
    IF ~b.valid
    THEN [err |-> TRUE, isNil |-> TRUE, usage |-> NoUsage]
    ELSE LET u == TokenUsage(JSONField(b, "prompt_tokens"),
                             JSONField(b, "completion_tokens"),
                             JSONField(b, "total_tokens"))
         IN  IF u.TotalTokens = 0
             THEN [err |-> FALSE, isNil |-> TRUE, usage |-> NoUsage]
             ELSE [err |-> FALSE, isNil |-> FALSE, usage |-> u]

\* the usage values the decoder can hand to UpdateSessionTokens
DecodedUsages ==
    { ParseTokenUsageFromResponse(b).usage :
        b \in { x \in Bodies : ~ParseTokenUsageFromResponse(x).err
                               /\ ~ParseTokenUsageFromResponse(x).isNil } }


(***************************************************************************)
(* Paths and the session id carried by a path.  A path is the sequence of  *)
(* its segments: "/v1/session/abc/status" is <<"v1","session","abc",       *)
(* "status">>, and a trailing slash is an empty last segment.              *)
(***************************************************************************)
Methods == {"GET", "POST"}

StatusPaths ==
    { <<"v1", "session", id, "status">> : id \in IDs } \cup { <<"sessions", "status">> }

\* a match of the prefix /v1/session that does not stop at the end of the segment
extractSessionID_prefix(path) ==
    IF Len(path) >= 3 /\ path[1] = "v1" /\ path[2] \in {"session", "sessions"}
    THEN path[3] ELSE ""

extractSessionID(path) ==
    IF Len(path) >= 3 /\ path[1] = "v1" /\ path[2] = "session"
    THEN path[3] ELSE ""

\* a path that leaves the session segments where they are
removeSessionFromPath_keep(path) == path

\* /v1/session/{id}/<rest> becomes /v1/<rest>, /v1/ when nothing follows the id;
\* any other path is returned as it is
removeSessionFromPath(path) ==
    IF Len(path) >= 3 /\ path[1] = "v1" /\ path[2] = "session" /\ path[3] # ""
    THEN <<"v1">> \o (IF Len(path) > 3 THEN SubSeq(path, 4, Len(path)) ELSE <<"">>)
    ELSE path

\* the segments request paths are made of; the empty one stands after a trailing slash
Segments == {"v1", "session", "abc123", "chat", "completions", ""}

NoRoute == [sessionID |-> "", upstreamPath |-> <<"none">>]

(***************************************************************************)
(* State.                                                                  *)
(***************************************************************************)
VARIABLES
    backend,    \* cfg.Repository.Type: which Repository the app constructed
    heap,       \* Go heap: address -> SessionData value
    sessions,   \* MemoryRepository.sessions: id -> address of the stored value
    mu,         \* MemoryRepository.mu (sync.RWMutex)
    db,         \* SQLite table `sessions`, committed rows: id -> row
    dbLock,     \* the caller whose transaction holds SQLite's write lock
    pc,         \* position of each caller inside the method it runs
    call,       \* the method each caller runs and its arguments
    local,      \* local variables of the running method
    ret,        \* what the last finished call returned to each caller
    mutated,    \* whether the caller has written through the returned pointer
    nCalls,     \* number of calls issued so far
    applied,    \* per id: elementwise sums and number of the usages of the updates that returned
    lastCreate, \* per id: value returned by the latest CreateSession since the last update
    additive    \* per id: every usage applied so far had total = prompt + completion

storeVars == <<backend, heap, sessions, mu, db, dbLock, pc, call, local, ret,
               mutated, nCalls, applied, lastCreate, additive>>

VARIABLES
    queue,         \* the Queue: whether NewQueue built it, limitPerMin and the interval it computed
    ch,            \* Queue.ch: the buffered requests, oldest first
    chClosed,      \* whether Queue.ch is closed
    worker,        \* the goroutine NewQueue starts: its position, the request it holds, its wake-up time
    reqs,          \* the ProxyRequest each Push was called with
    phase,         \* per request: where it is between Push and the return of Push
    reply,         \* per request: its Reply channel (capacity 1)
    returned,      \* per request: the responses Push has returned
    upstreamCalls, \* number of calls of http.DefaultClient.Do
    crashed,       \* the process died of a panic
    panicMsg,      \* the message of that panic
    now,           \* the clock
    firstPush,     \* time of the first send into Queue.ch
    lastAdmit,     \* time of the latest `go q.handle(req)`
    admitOrder,    \* the requests in the order `go q.handle(req)` was run for them
    pushOrder,     \* the requests in the order `q.ch <- r` was run for them
    app,           \* App.Close: where its caller stands
    repoCloses,    \* number of calls of the repository's Close that returned
    repoCloseErr,  \* the error the latest of them returned
    exchange,      \* per request: how its call of http.DefaultClient.Do ended, if it has
    callerReq,     \* per Push: the ProxyRequest variable of its caller
    headerMaps,    \* per request: the entries of the http.Header its Headers field points to
    outbound,      \* per request: the Header of the http.Request handle built for it
    inPath,        \* the path of an inbound request, as its segments
    route,         \* the session id and the upstream path computed from it
    handler        \* per inbound request: where ProxyHandler.Handle stands and what it holds

queueVars == <<queue, ch, chClosed, worker, reqs, phase, reply, returned, upstreamCalls,
               crashed, panicMsg, now, firstPush, lastAdmit, admitOrder, pushOrder, app, repoCloses,
               repoCloseErr, exchange, callerReq, headerMaps, outbound>>

\* what a caller of Push and the upstream can see of a request
wireVars == <<callerReq, headerMaps, outbound>>

lifeVars == <<app, repoCloses, repoCloseErr>>

routerVars == <<inPath, route, handler>>

vars == <<storeVars, queueVars, routerVars>>

(***************************************************************************)
(* Helpers on maps and on the heap.                                        *)
(***************************************************************************)
Range(f) == { f[x] : x \in DOMAIN f }

EmptyMap == [x \in {} |-> 0]

MapPut(m, k, v) == [x \in DOMAIN m \cup {k} |-> IF x = k THEN v ELSE m[x]]

\* Addresses.  The value the store keeps for an id lives in its own cell, and
\* every value handed to a caller that is allocated by the call (sessCopy,
\* vCopy, the scanned sess) lives in a cell of that call; the caller's
\* previous cells are unreachable by then.
StoreAddr(id) == <<NoProc, id>>

RetAddr(p, id) == <<p, id>>

NoAddr == <<NoProc, "">>

\* garbage collection: only reachable cells stay
Collect(h, roots) == [a \in (DOMAIN h \cap roots) |-> h[a]]

\* sync.RWMutex
Unlocked == [writer |-> NoProc, readers |-> {}]

\* a Lock that excludes nobody
CanLock_unguarded(m) == TRUE

CanLock(m) == m.writer = NoProc /\ m.readers = {}

CanRLock(m) == m.writer = NoProc

\* sessCopy := *sess; return &sessCopy
ReturnCopy(h, a, n) == [heap |-> MapPut(h, n, h[a]), addr |-> n]

\* a ListSessions that hands out the stored pointers: result[k] = v
CopyAll_alias(m, h, p) == [heap |-> h, ptrs |-> m]

\* the loop of ListSessions over the map m of pointers:
\* vCopy := *v; result[k] = &vCopy
CopyAll(m, h, p) ==
    LET ptrs == [k \in DOMAIN m |-> RetAddr(p, k)]
    IN  [heap |-> [a \in DOMAIN h \cup Range(ptrs) |->
                     IF \E k \in DOMAIN m : a = ptrs[k]
                     THEN h[m[CHOOSE k \in DOMAIN m : a = ptrs[k]]]
                     ELSE h[a]],
         ptrs |-> ptrs]

\* the loop of ListSessions over the rows of a query: each row is scanned into
\* a variable of its own iteration, whose address is put in the result
ScanAll(rows, h, p) ==
    LET ptrs == [k \in DOMAIN rows |-> RetAddr(p, k)]
    IN  [heap |-> [a \in DOMAIN h \cup Range(ptrs) |->
                     IF \E k \in DOMAIN rows : a = ptrs[k]
                     THEN rows[CHOOSE k \in DOMAIN rows : a = ptrs[k]]
                     ELSE h[a]],
         ptrs |-> ptrs]

\* an accumulation that assigns the total instead of adding it
AddUsage_assignTotal(s, u) ==
    [s EXCEPT !.TotalPromptTokens = @ + u.PromptTokens,
              !.TotalCompletionTokens = @ + u.CompletionTokens,
              !.TotalTokens = u.TotalTokens,
              !.RequestCount = @ + 1]

\* sess.TotalPromptTokens += usage.PromptTokens; ...; sess.RequestCount++
AddUsage(s, u) ==
    [s EXCEPT !.TotalPromptTokens = @ + u.PromptTokens,
              !.TotalCompletionTokens = @ + u.CompletionTokens,
              !.TotalTokens = @ + u.TotalTokens,
              !.RequestCount = @ + 1]

\* bookkeeping of the usages handed to the store: elementwise sums and count
Sum(a, u) ==
    [p |-> a.p + u.PromptTokens, c |-> a.c + u.CompletionTokens,
     t |-> a.t + u.TotalTokens, n |-> a.n + 1]

IsAdditive(u) == u.TotalTokens = u.PromptTokens + u.CompletionTokens

\* what the store holds, whatever the backend
MemView == [id \in DOMAIN sessions |-> heap[sessions[id]]]

StoreView == IF backend = "memory" THEN MemView ELSE db

(***************************************************************************)
(* Callers.                                                                *)
(***************************************************************************)
NoCall == [op |-> "none", id |-> "", usage |-> NoUsage, via |-> "direct"]

NoLocal == [sess |-> NoAddr, tmp |-> ZeroSession(""), tx |-> EmptyMap]

NoRet == [op |-> "none", id |-> "", err |-> "nil", ptrs |-> EmptyMap,
          val |-> EmptyMap, status |-> 0]

FirstPCOf(b, op) ==
    IF b = "memory"
    THEN CASE op = "GetSession" -> "mget_rlock"
           [] op = "CreateSession" -> "mcreate_lock"
           [] op = "UpdateSessionTokens" -> "mupd_lock"
           [] op = "ListSessions" -> "mlist_rlock"
    ELSE CASE op = "GetSession" -> "sget_query"
           [] op = "CreateSession" -> "screate_insert"
           [] op = "UpdateSessionTokens" -> "supd_upsert"
           [] op = "ListSessions" -> "slist_query"

\* the method of the repository the application was configured with
FirstPC(op) == FirstPCOf(backend, op)

\* the pointers a caller holds
HeldPtrs(p) == Range(ret[p].ptrs)

\* a caller is free when it runs no call
Free(p) == pc[p] \in {"idle", "returned"}

\* what the previous call handed to the caller is dropped when it calls again
DropHeld(p) ==
    Collect(heap, Range(sessions) \cup UNION { HeldPtrs(q) : q \in Procs \ {p} })

\* caller p enters the method c names
BeginCall(p, c) ==
    /\ Free(p)
    /\ call' = [call EXCEPT ![p] = c]
    /\ pc' = [pc EXCEPT ![p] = FirstPC(c.op)]
    /\ local' = [local EXCEPT ![p] = NoLocal]
    /\ ret' = [ret EXCEPT ![p] = NoRet]
    /\ mutated' = [mutated EXCEPT ![p] = FALSE]
    /\ heap' = DropHeld(p)

StartCall(p, c) ==
    /\ nCalls < MaxCalls
    /\ nCalls' = nCalls + 1
    /\ BeginCall(p, c)

\* HandleSingle writes the response after the repository call returned
HandleSingleStatus(err) ==
    IF err = "ErrSessionNotFound" THEN 404
    ELSE IF err = "nil" THEN 200 ELSE 500

\* the call of caller p returns err and the pointers ptrs
Return(p, h, err, ptrs) ==
    /\ heap' = h
    /\ ret' = [ret EXCEPT ![p] =
                 [op |-> call[p].op, id |-> call[p].id, err |-> err, ptrs |-> ptrs,
                  val |-> [k \in DOMAIN ptrs |-> h[ptrs[k]]],
                  status |-> IF call[p].via = "HandleSingle"
                             THEN HandleSingleStatus(err) ELSE 0]]
    /\ pc' = [pc EXCEPT ![p] = "returned"]
    /\ mutated' = [mutated EXCEPT ![p] = FALSE]
    /\ call' = [call EXCEPT ![p] = NoCall]
    /\ local' = [local EXCEPT ![p] = NoLocal]

InvokeGetSession(p) ==
    \E id \in IDs :
        /\ StartCall(p, [op |-> "GetSession", id |-> id, usage |-> NoUsage, via |-> "direct"])
        /\ UNCHANGED <<queueVars, routerVars, backend, sessions, mu, db, dbLock, applied, lastCreate, additive>>

InvokeCreateSession(p) ==
    \E id \in IDs :
        /\ StartCall(p, [op |-> "CreateSession", id |-> id, usage |-> NoUsage, via |-> "direct"])
        /\ UNCHANGED <<queueVars, routerVars, backend, sessions, mu, db, dbLock, applied, lastCreate, additive>>

InvokeUpdateSessionTokens(p) ==
    \E id \in IDs, u \in DecodedUsages :
        /\ StartCall(p, [op |-> "UpdateSessionTokens", id |-> id, usage |-> u, via |-> "direct"])
        /\ lastCreate' = [lastCreate EXCEPT ![id] = [set |-> FALSE, val |-> ZeroSession(id)]]
        /\ UNCHANGED <<queueVars, routerVars, backend, sessions, mu, db, dbLock, applied, additive>>

InvokeListSessions(p) ==
    /\ StartCall(p, [op |-> "ListSessions", id |-> "", usage |-> NoUsage, via |-> "direct"])
    /\ UNCHANGED <<queueVars, routerVars, backend, sessions, mu, db, dbLock, applied, lastCreate, additive>>

\* a HandleSingle that looks up whatever id the path gave it, the empty one included
StatusCall_getOnly(sessionID) ==
    [op |-> "GetSession", id |-> sessionID, usage |-> NoUsage, via |-> "HandleSingle"]

\* if sessionID != "" { GetSession(sessionID) } else { ListSessions() }
StatusCall(sessionID) ==
    IF sessionID # ""
    THEN [op |-> "GetSession", id |-> sessionID, usage |-> NoUsage, via |-> "HandleSingle"]
    ELSE [op |-> "ListSessions", id |-> "", usage |-> NoUsage, via |-> "HandleSingle"]

\* SessionStatusHandler.HandleSingle up to its call into the session manager
HandleSingle(p) ==
    \E method \in Methods, path \in StatusPaths :
        IF method # "GET"
        THEN /\ Free(p)
             /\ nCalls < MaxCalls
             /\ nCalls' = nCalls + 1
             /\ call' = [call EXCEPT ![p] = NoCall]
             /\ ret' = [ret EXCEPT ![p] = [NoRet EXCEPT !.op = "HandleSingle", !.status = 405]]
             /\ pc' = [pc EXCEPT ![p] = "returned"]
             /\ mutated' = [mutated EXCEPT ![p] = FALSE]
             /\ heap' = DropHeld(p)
             /\ UNCHANGED <<queueVars, routerVars, backend, sessions, mu, db, dbLock, local, applied, lastCreate, additive>>
        ELSE LET sessionID == extractSessionID(path)
             IN  /\ StartCall(p, StatusCall(sessionID))
                 /\ UNCHANGED <<queueVars, routerVars, backend, sessions, mu, db, dbLock, applied, lastCreate, additive>>

\* the caller writes through a pointer it was handed
MutateReturned(p) ==
    /\ pc[p] = "returned"
    /\ ~mutated[p]
    /\ \E k \in DOMAIN ret[p].ptrs :
          heap' = [heap EXCEPT ![ret[p].ptrs[k]].TotalTokens = @ + 1]
    /\ mutated' = [mutated EXCEPT ![p] = TRUE]
    /\ UNCHANGED <<queueVars, routerVars, backend, sessions, mu, db, dbLock, pc, call, local, ret, nCalls,
                   applied, lastCreate, additive>>

(***************************************************************************)
(* MemoryRepository                                                        *)
(***************************************************************************)
\* sess, exists := r.sessions[sessionID]
Exists(m, id) == id \in DOMAIN m

\* a GetSession that reports no error on a miss
GetSessionErr_nil(exists) == "nil"

\* the error GetSession returns
GetSessionErr(exists) == IF exists THEN "nil" ELSE "ErrSessionNotFound"

\* a CreateSession without the existence check
CreateExists_never(m, id) == FALSE

\* if sess, exists := r.sessions[sessionID]; exists { return copy }
CreateExists(m, id) == id \in DOMAIN m

LastCreateNone(id) == [set |-> FALSE, val |-> ZeroSession(id)]

Mem_GetSession_RLock(p) ==
    /\ pc[p] = "mget_rlock"
    /\ CanRLock(mu)
    /\ mu' = [mu EXCEPT !.readers = @ \cup {p}]
    /\ pc' = [pc EXCEPT ![p] = "mget_body"]
    /\ UNCHANGED <<queueVars, routerVars, backend, heap, sessions, db, dbLock, call, local, ret, mutated,
                   nCalls, applied, lastCreate, additive>>

Mem_GetSession_Body(p) ==
    /\ pc[p] = "mget_body"
    /\ LET id == call[p].id
           exists == Exists(sessions, id)
       IN  IF exists
           THEN LET c == ReturnCopy(heap, sessions[id], RetAddr(p, id))
                IN  Return(p, c.heap, GetSessionErr(exists), MapPut(EmptyMap, id, c.addr))
           ELSE Return(p, heap, GetSessionErr(exists), EmptyMap)
    /\ mu' = [mu EXCEPT !.readers = @ \ {p}]
    /\ UNCHANGED <<queueVars, routerVars, backend, sessions, db, dbLock, nCalls, applied,
                   lastCreate, additive>>

Mem_CreateSession_Lock(p) ==
    /\ pc[p] = "mcreate_lock"
    /\ CanLock(mu)
    /\ mu' = [mu EXCEPT !.writer = p]
    /\ pc' = [pc EXCEPT ![p] = "mcreate_body"]
    /\ UNCHANGED <<queueVars, routerVars, backend, heap, sessions, db, dbLock, call, local, ret, mutated,
                   nCalls, applied, lastCreate, additive>>

Mem_CreateSession_Body(p) ==
    /\ pc[p] = "mcreate_body"
    /\ LET id == call[p].id
       IN  IF CreateExists(sessions, id)
           THEN LET c == ReturnCopy(heap, sessions[id], RetAddr(p, id))
                IN  /\ Return(p, c.heap, "nil", MapPut(EmptyMap, id, c.addr))
                    /\ lastCreate' = [lastCreate EXCEPT ![id] =
                                        [set |-> TRUE, val |-> c.heap[c.addr]]]
                    /\ UNCHANGED sessions
           ELSE LET a == StoreAddr(id)
                    h == MapPut(heap, a, ZeroSession(id))
                    c == ReturnCopy(h, a, RetAddr(p, id))
                IN  /\ sessions' = MapPut(sessions, id, a)
                    /\ Return(p, c.heap, "nil", MapPut(EmptyMap, id, c.addr))
                    /\ lastCreate' = [lastCreate EXCEPT ![id] =
                                        [set |-> TRUE, val |-> c.heap[c.addr]]]
    /\ mu' = [mu EXCEPT !.writer = NoProc]
    /\ UNCHANGED <<queueVars, routerVars, backend, db, dbLock, nCalls, applied, additive>>

Mem_UpdateSessionTokens_Lock(p) ==
    /\ pc[p] = "mupd_lock"
    /\ CanLock(mu)
    /\ mu' = [mu EXCEPT !.writer = p]
    /\ pc' = [pc EXCEPT ![p] = "mupd_load"]
    /\ UNCHANGED <<queueVars, routerVars, backend, heap, sessions, db, dbLock, call, local, ret, mutated,
                   nCalls, applied, lastCreate, additive>>

\* look the session up (create it when absent) and read its counters
Mem_UpdateSessionTokens_Load(p) ==
    /\ pc[p] = "mupd_load"
    /\ LET id == call[p].id
       IN  IF Exists(sessions, id)
           THEN /\ local' = [local EXCEPT ![p].sess = sessions[id],
                                          ![p].tmp = heap[sessions[id]]]
                /\ UNCHANGED <<heap, sessions>>
           ELSE LET a == StoreAddr(id)
                IN  /\ heap' = MapPut(heap, a, ZeroSession(id))
                    /\ sessions' = MapPut(sessions, id, a)
                    /\ local' = [local EXCEPT ![p].sess = a, ![p].tmp = ZeroSession(id)]
    /\ pc' = [pc EXCEPT ![p] = "mupd_store"]
    /\ UNCHANGED <<queueVars, routerVars, backend, mu, db, dbLock, call, ret, mutated, nCalls, applied,
                   lastCreate, additive>>

\* write the counters back, copy the session, unlock and return the copy
Mem_UpdateSessionTokens_Store(p) ==
    /\ pc[p] = "mupd_store"
    /\ LET id == call[p].id
           u == call[p].usage
           h == [heap EXCEPT ![local[p].sess] = AddUsage(local[p].tmp, u)]
           c == ReturnCopy(h, local[p].sess, RetAddr(p, id))
       IN  /\ Return(p, c.heap, "nil", MapPut(EmptyMap, id, c.addr))
           /\ applied' = [applied EXCEPT ![id] = Sum(@, u)]
           /\ additive' = [additive EXCEPT ![id] = @ /\ IsAdditive(u)]
           /\ lastCreate' = [lastCreate EXCEPT ![id] = LastCreateNone(id)]
    /\ mu' = [mu EXCEPT !.writer = IF @ = p THEN NoProc ELSE @]
    /\ UNCHANGED <<queueVars, routerVars, backend, sessions, db, dbLock, nCalls>>

Mem_ListSessions_RLock(p) ==
    /\ pc[p] = "mlist_rlock"
    /\ CanRLock(mu)
    /\ mu' = [mu EXCEPT !.readers = @ \cup {p}]
    /\ pc' = [pc EXCEPT ![p] = "mlist_body"]
    /\ UNCHANGED <<queueVars, routerVars, backend, heap, sessions, db, dbLock, call, local, ret, mutated,
                   nCalls, applied, lastCreate, additive>>

Mem_ListSessions_Body(p) ==
    /\ pc[p] = "mlist_body"
    /\ LET c == CopyAll(sessions, heap, p)
       IN  Return(p, c.heap, "nil", c.ptrs)
    /\ mu' = [mu EXCEPT !.readers = @ \ {p}]
    /\ UNCHANGED <<queueVars, routerVars, backend, sessions, db, dbLock, nCalls, applied,
                   lastCreate, additive>>

(***************************************************************************)
(* SQLiteRepository                                                        *)
(***************************************************************************)
\* an insert that replaces the row of an id that is already there
InsertOrIgnore_replace(tab, id) == MapPut(tab, id, ZeroSession(id))

\* INSERT ... VALUES (?, 0, 0, 0, 0) ON CONFLICT(session_id) DO NOTHING
InsertOrIgnore(tab, id) ==
    IF id \in DOMAIN tab THEN tab ELSE MapPut(tab, id, ZeroSession(id))

\* an upsert whose UPDATE has no WHERE: the usage is added to every row
Upsert_everyRow(tab, id, u) ==
    LET t == IF id \in DOMAIN tab THEN tab ELSE MapPut(tab, id, ZeroSession(id))
    IN  [k \in DOMAIN t |-> AddUsage(t[k], u)]

\* an upsert that sets the counters to the excluded values instead of adding them
Upsert_overwrite(tab, id, u) ==
    MapPut(tab, id, SessionData(id, u.PromptTokens, u.CompletionTokens, u.TotalTokens, 1))

\* INSERT ... VALUES (?, ?, ?, ?, 1) ON CONFLICT(session_id) DO UPDATE SET ...
Upsert(tab, id, u) ==
    IF id \in DOMAIN tab
    THEN [tab EXCEPT ![id] =
            SessionData(id, @.TotalPromptTokens + u.PromptTokens,
                        @.TotalCompletionTokens + u.CompletionTokens,
                        @.TotalTokens + u.TotalTokens, @.RequestCount + 1)]
    ELSE MapPut(tab, id,
                SessionData(id, u.PromptTokens, u.CompletionTokens, u.TotalTokens, 1))

\* transactions that write without excluding each other
CanWrite_always(lock, p) == TRUE

\* a statement that writes takes the database's write lock for its transaction
CanWrite(lock, p) == lock = NoProc \/ lock = p

\* return &sess for a row scanned into a local
ReturnRow(p, row, id) ==
    LET a == RetAddr(p, id)
    IN  Return(p, MapPut(heap, a, row), "nil", MapPut(EmptyMap, id, a))

SQLite_GetSession(p) ==
    /\ pc[p] = "sget_query"
    /\ LET id == call[p].id
       IN  IF id \in DOMAIN db
           THEN ReturnRow(p, db[id], id)
           ELSE Return(p, heap, "ErrSessionNotFound", EmptyMap)
    /\ UNCHANGED <<queueVars, routerVars, backend, sessions, mu, db, dbLock, nCalls, applied, lastCreate, additive>>

\* BeginTx, the insert and the read-back inside the transaction
SQLite_CreateSession_Insert(p) ==
    /\ pc[p] = "screate_insert"
    /\ CanWrite(dbLock, p)
    /\ dbLock' = p
    /\ LET tx == InsertOrIgnore(db, call[p].id)
       IN  local' = [local EXCEPT ![p].tx = tx, ![p].tmp = tx[call[p].id]]
    /\ pc' = [pc EXCEPT ![p] = "screate_commit"]
    /\ UNCHANGED <<queueVars, routerVars, backend, heap, sessions, mu, db, call, ret, mutated, nCalls,
                   applied, lastCreate, additive>>

\* Commit and return &sess
SQLite_CreateSession_Commit(p) ==
    /\ pc[p] = "screate_commit"
    /\ db' = local[p].tx
    /\ dbLock' = NoProc
    /\ ReturnRow(p, local[p].tmp, call[p].id)
    /\ lastCreate' = [lastCreate EXCEPT ![call[p].id] = [set |-> TRUE, val |-> local[p].tmp]]
    /\ UNCHANGED <<queueVars, routerVars, backend, sessions, mu, nCalls, applied, additive>>

\* BeginTx, the upsert and the read-back inside the transaction
SQLite_UpdateSessionTokens_Upsert(p) ==
    /\ pc[p] = "supd_upsert"
    /\ CanWrite(dbLock, p)
    /\ dbLock' = p
    /\ LET tx == Upsert(db, call[p].id, call[p].usage)
       IN  local' = [local EXCEPT ![p].tx = tx, ![p].tmp = tx[call[p].id]]
    /\ pc' = [pc EXCEPT ![p] = "supd_commit"]
    /\ UNCHANGED <<queueVars, routerVars, backend, heap, sessions, mu, db, call, ret, mutated, nCalls,
                   applied, lastCreate, additive>>

\* Commit and return &sess
SQLite_UpdateSessionTokens_Commit(p) ==
    /\ pc[p] = "supd_commit"
    /\ db' = local[p].tx
    /\ dbLock' = NoProc
    /\ ReturnRow(p, local[p].tmp, call[p].id)
    /\ applied' = [applied EXCEPT ![call[p].id] = Sum(@, call[p].usage)]
    /\ additive' = [additive EXCEPT ![call[p].id] = @ /\ IsAdditive(call[p].usage)]
    /\ lastCreate' = [lastCreate EXCEPT ![call[p].id] = LastCreateNone(call[p].id)]
    /\ UNCHANGED <<queueVars, routerVars, backend, sessions, mu, nCalls>>

SQLite_ListSessions(p) ==
    /\ pc[p] = "slist_query"
    /\ LET c == ScanAll(db, heap, p)
       IN  Return(p, c.heap, "nil", c.ptrs)
    /\ UNCHANGED <<queueVars, routerVars, backend, sessions, mu, db, dbLock, nCalls, applied, lastCreate, additive>>

(***************************************************************************)
(* The two repositories side by side: one caller drives a                  *)
(* MemoryRepository and another a SQLiteRepository, both started empty,    *)
(* with the same calls, one call after the other.                          *)
(***************************************************************************)
\* the caller of the MemoryRepository and the caller of the SQLiteRepository
MemCaller == 1

SQLCaller == 2

\* the calls of the Repository interface
RepositoryCalls ==
    { [op |-> op, id |-> id, usage |-> NoUsage, via |-> "direct"] :
        op \in {"GetSession", "CreateSession"}, id \in IDs }
    \cup { [op |-> "UpdateSessionTokens", id |-> id, usage |-> u, via |-> "direct"] :
             id \in IDs, u \in DecodedUsages }
    \cup { [op |-> "ListSessions", id |-> "", usage |-> NoUsage, via |-> "direct"] }

\* the next call of the sequence is issued to both repositories
BothInvoke ==
    /\ Free(MemCaller)
    /\ Free(SQLCaller)
    /\ nCalls < MaxCalls
    /\ nCalls' = nCalls + 1
    /\ \E c \in RepositoryCalls :
          /\ call' = [call EXCEPT ![MemCaller] = c, ![SQLCaller] = c]
          /\ pc' = [pc EXCEPT ![MemCaller] = FirstPCOf("memory", c.op),
                              ![SQLCaller] = FirstPCOf("sqlite", c.op)]
          /\ lastCreate' = IF c.op = "UpdateSessionTokens"
                           THEN [lastCreate EXCEPT ![c.id] = LastCreateNone(c.id)]
                           ELSE lastCreate
    /\ local' = [local EXCEPT ![MemCaller] = NoLocal, ![SQLCaller] = NoLocal]
    /\ ret' = [ret EXCEPT ![MemCaller] = NoRet, ![SQLCaller] = NoRet]
    /\ mutated' = [mutated EXCEPT ![MemCaller] = FALSE, ![SQLCaller] = FALSE]
    /\ heap' = Collect(heap, Range(sessions)
                             \cup UNION { HeldPtrs(q) : q \in Procs \ {MemCaller, SQLCaller} })
    /\ UNCHANGED <<queueVars, routerVars, backend, sessions, mu, db, dbLock, applied, additive>>

(***************************************************************************)
(* Queue (queue.go): NewQueue, its worker, Push, Close and handle          *)
(***************************************************************************)
Reqs == 1..NumReqs

\* one more caller of Push, who comes when the others have filled the channel
LateReq == NumReqs + 1

\* every caller of Push
AllReqs == Reqs \cup {LateReq}

\* the values NewQueue is given as limitPerMin
Limits == {-1, 0, 1, 2}

\* Go's integer division, which truncates toward zero (b # 0)
GoDiv(a, b) ==
    IF b > 0
    THEN (IF a >= 0 THEN a \div b ELSE -((-a) \div b))
    ELSE (IF a >= 0 THEN -(a \div (-b)) ELSE (-a) \div (-b))

\* interval := time.Minute / time.Duration(limitPerMin)
Interval(limitPerMin) == GoDiv(Minute, limitPerMin)

\* a ProxyRequest as Push receives it: Headers is nil or a map, Method is one
\* http.NewRequestWithContext accepts or not
\* a nil channel
NilChan == 0

ProxyRequest(method, headers) == [Method |-> method, Headers |-> headers, Reply |-> NilChan]

NoRequest == ProxyRequest("", "nil")

ProxyRequests ==
    { ProxyRequest("POST", "map with Authorization"), ProxyRequest("POST", "nil"),
      ProxyRequest("BAD METHOD", "map") }

\* the entries of the caller's Headers: the test's X-Custom-Header, and an
\* Authorization of the caller's own where it sends one; a nil Header has none
HeaderMap(h) ==
    CASE h = "nil" -> EmptyMap
      [] h = "map" -> [k \in {"X-Custom-Header"} |-> "custom-value"]
      [] h = "map with Authorization" ->
             [k \in {"X-Custom-Header", "Authorization"} |->
                 IF k = "Authorization" THEN "Bearer caller" ELSE "custom-value"]

\* "Bearer "+q.openAIAPIKey
Credential == "Bearer key"

\* http.Header.Set: the value of the key is replaced
Set(m, k, v) == MapPut(m, k, v)

\* a handle that sets Authorization in p.Headers itself
CallerHeadersAfterSet_alias(m, k, v) == Set(m, k, v)

\* req.Header = p.Headers.Clone(): Set writes the clone, the caller's map keeps its entries
CallerHeadersAfterSet(m, k, v) == m

\* http.NewRequestWithContext rejects a method that is no token
ValidMethod(m) == m # "BAD METHOD"

\* a ProxyResponse; for is the request whose exchange produced it
ProxyResponse(r, status, headers, body, err) ==
    [for |-> r, StatusCode |-> status, Headers |-> headers, Body |-> body, Err |-> err]

\* what http.DefaultClient.Do and io.ReadAll can come back with
Outcomes == {"ok", "error status", "transport error", "read error"}

\* the status code of the upstream's response
UpstreamStatus(outcome) == IF outcome = "error status" THEN 500 ELSE 200

\* a handle that answers a transport failure with a gateway status
ExchangeResponse_gateway(r, outcome) ==
    IF outcome = "transport error"
    THEN [for |-> r, StatusCode |-> 502, Headers |-> "nil", Body |-> "",
          Err |-> "transport error"]
    ELSE [for |-> r, StatusCode |-> IF outcome = "error status" THEN 500 ELSE 200,
          Headers |-> "upstream",
          Body |-> IF outcome = "read error" THEN "partial" ELSE "full", Err |-> "nil"]

\* a handle that reports a transport failure as an empty response without Err
ExchangeResponse_silent(r, outcome) ==
    IF outcome = "transport error"
    THEN [for |-> r, StatusCode |-> 0, Headers |-> "nil", Body |-> "", Err |-> "nil"]
    ELSE [for |-> r, StatusCode |-> IF outcome = "error status" THEN 500 ELSE 200,
          Headers |-> "upstream",
          Body |-> IF outcome = "read error" THEN "partial" ELSE "full", Err |-> "nil"]

\* the response handle sends for an outcome of the exchange; the error of
\* io.ReadAll is dropped and the bytes read so far are sent
ExchangeResponse(r, outcome) ==
    IF outcome = "transport error"
    THEN ProxyResponse(r, 0, "nil", "", "transport error")
    ELSE ProxyResponse(r, UpstreamStatus(outcome), "upstream",
                       IF outcome = "read error" THEN "partial" ELSE "full", "nil")

\* a handle that starts over after a transport failure
PhaseAfter_retry(outcome) == IF outcome = "transport error" THEN "ADMITTED" ELSE "COMPLETED"

\* handle returns after its one send on p.Reply, whatever the outcome
PhaseAfter(outcome) == IF outcome = "transport error" THEN "FAILED" ELSE "COMPLETED"

NoWorker == [pc |-> "none", req |-> 0, wakeAt |-> 0]

Never == -1

\* the requests whose exchange runs
InFlight == { r \in AllReqs : phase[r] = "IN_FLIGHT" }

\* the requests `go q.handle(req)` was run for
Admitted == { r \in AllReqs : phase[r] \notin {"new", "QUEUED"} }

\* a handle called without `go`, which would hold the worker until the reply
HandleBlocksWorker_sync(inflight) == inflight # {}

\* go q.handle(req): the worker does not wait for the exchange
HandleBlocksWorker(inflight) == FALSE

\* one reply channel shared by every Push
MakeReply_shared(r) == 1

\* r.Reply = make(chan entities.ProxyResponse, 1): a new channel for each Push
MakeReply(r) == r

\* make(chan entities.ProxyResponse, 1): the capacity of a Reply channel
ReplyCap == 1

\* p.Reply <- ...: the send goes on when the channel has room for it
CanSendReply(c) == Len(reply[c]) < ReplyCap

\* a handle that goes on to the exchange after it reported the failed request
AfterBuildError_goOn == "IN_FLIGHT"

\* handle returns after it reported that the request could not be built
AfterBuildError == "FAILED"

\* a worker that does not sleep
SleepUntil_none(t, interval) == t

\* time.Sleep(interval): the earliest time the worker goes on
SleepUntil(t, interval) == t + interval

QueueInit ==
    /\ queue = [made |-> FALSE, limitPerMin |-> 0, interval |-> 0]
    /\ ch = <<>>
    /\ chClosed = FALSE
    /\ worker = NoWorker
    /\ reqs = [r \in AllReqs |-> NoRequest]
    /\ phase = [r \in AllReqs |-> "new"]
    /\ reply = [r \in AllReqs |-> <<>>]
    /\ returned = [r \in AllReqs |-> <<>>]
    /\ upstreamCalls = 0
    /\ crashed = FALSE
    /\ panicMsg = ""
    /\ now = 0
    /\ firstPush = Never
    /\ lastAdmit = Never
    /\ admitOrder = <<>>
    /\ pushOrder = <<>>
    /\ app = "running"
    /\ repoCloses = 0
    /\ repoCloseErr = ""
    /\ exchange = [r \in AllReqs |-> "none"]
    /\ callerReq = [r \in AllReqs |-> NoRequest]
    /\ headerMaps = [r \in AllReqs |-> EmptyMap]
    /\ outbound = [r \in AllReqs |-> EmptyMap]

\* a panic nobody recovers ends the process
Panic(msg) ==
    /\ crashed' = TRUE
    /\ panicMsg' = msg
    /\ UNCHANGED <<queue, ch, chClosed, worker, reqs, phase, reply, returned, upstreamCalls,
                   now, firstPush, lastAdmit>>

\* NewQueue(limitPerMin, baseURL, openAIAPIKey)
NewQueue ==
    /\ ~crashed
    /\ ~queue.made
    /\ \E limitPerMin \in Limits :
          IF limitPerMin = 0
          THEN Panic("integer divide by zero")
          ELSE /\ queue' = [made |-> TRUE, limitPerMin |-> limitPerMin,
                        interval |-> Interval(limitPerMin)]
               /\ worker' = [pc |-> "recv", req |-> 0, wakeAt |-> 0]
               /\ UNCHANGED <<ch, chClosed, reqs, phase, reply, returned, upstreamCalls,
                              crashed, panicMsg, now, firstPush, lastAdmit>>
    /\ UNCHANGED <<storeVars, routerVars, wireVars, admitOrder, pushOrder, lifeVars, exchange>>

\* Push takes r by value: r.Reply = make(...) writes the copy, the caller's variable stays
CallerAfterPush(p, c) == p

\* a send that puts the request ahead of the buffered ones
Enqueue_front(c, r) == <<r>> \o c

\* q.ch <- r: the channel keeps the requests in the order they were sent
Enqueue(c, r) == Append(c, r)

\* Push up to `q.ch <- r`, called with one of requests: blocks while the
\* channel is full, panics when it is closed
PushSendOf(r, requests) ==
    /\ ~crashed
    /\ queue.made
    /\ phase[r] = "new"
    /\ \E p \in requests :
          IF chClosed
          THEN Panic("send on closed channel") /\ UNCHANGED <<pushOrder, wireVars>>
          ELSE /\ Len(ch) < ChanCap
               /\ ch' = Enqueue(ch, r)
               /\ pushOrder' = Append(pushOrder, r)
               /\ reqs' = [reqs EXCEPT ![r] = [p EXCEPT !.Reply = MakeReply(r)]]
               /\ callerReq' = [callerReq EXCEPT ![r] = CallerAfterPush(p, MakeReply(r))]
               /\ headerMaps' = [headerMaps EXCEPT ![r] = HeaderMap(p.Headers)]
               /\ UNCHANGED outbound
               /\ phase' = [phase EXCEPT ![r] = "QUEUED"]
               /\ firstPush' = IF firstPush = Never THEN now ELSE firstPush
               /\ UNCHANGED <<queue, chClosed, worker, reply, returned, upstreamCalls,
                              crashed, panicMsg, now, lastAdmit>>

\* Push called by any caller with any request
PushSend(r) ==
    /\ PushSendOf(r, ProxyRequests)
    /\ UNCHANGED <<storeVars, routerVars, admitOrder, lifeVars, exchange>>

\* Push: return <-r.Reply
PushReturn(r) ==
    /\ ~crashed
    /\ phase[r] # "new"
    /\ returned[r] = <<>>
    /\ reply[reqs[r].Reply] # <<>>
    /\ returned' = [returned EXCEPT ![r] = Append(@, Head(reply[reqs[r].Reply]))]
    /\ reply' = [reply EXCEPT ![reqs[r].Reply] = Tail(@)]
    /\ UNCHANGED <<queue, ch, chClosed, worker, reqs, phase, upstreamCalls, crashed, panicMsg, now,
                   firstPush, lastAdmit>>
    /\ UNCHANGED <<storeVars, routerVars, wireVars, admitOrder, pushOrder, lifeVars, exchange>>

\* the worker: for req := range q.ch, then time.Sleep(interval)
WorkerRecv ==
    /\ ~crashed
    /\ worker.pc = "recv"
    /\ ~HandleBlocksWorker(InFlight)
    /\ ch # <<>>
    /\ worker' = [pc |-> "sleep", req |-> Head(ch), wakeAt |-> SleepUntil(now, queue.interval)]
    /\ ch' = Tail(ch)
    /\ UNCHANGED <<queue, chClosed, reqs, phase, reply, returned, upstreamCalls, crashed, panicMsg, now,
                   firstPush, lastAdmit>>
    /\ UNCHANGED <<storeVars, routerVars, wireVars, admitOrder, pushOrder, lifeVars, exchange>>

\* the worker: range over a closed and drained channel ends
WorkerExit ==
    /\ ~crashed
    /\ worker.pc = "recv"
    /\ ch = <<>>
    /\ chClosed
    /\ worker' = [pc |-> "done", req |-> 0, wakeAt |-> 0]
    /\ UNCHANGED <<queue, ch, chClosed, reqs, phase, reply, returned, upstreamCalls, crashed, panicMsg,
                   now, firstPush, lastAdmit>>
    /\ UNCHANGED <<storeVars, routerVars, wireVars, admitOrder, pushOrder, lifeVars, exchange>>

\* the worker: the sleep is over, go q.handle(req)
WorkerLaunch ==
    /\ ~crashed
    /\ worker.pc = "sleep"
    /\ now >= worker.wakeAt
    /\ ~HandleBlocksWorker(InFlight)
    /\ phase' = [phase EXCEPT ![worker.req] = "ADMITTED"]
    /\ worker' = [pc |-> "recv", req |-> 0, wakeAt |-> 0]
    /\ lastAdmit' = now
    /\ admitOrder' = Append(admitOrder, worker.req)
    /\ UNCHANGED <<queue, ch, chClosed, reqs, reply, returned, upstreamCalls, crashed,
                   panicMsg, now, firstPush>>
    /\ UNCHANGED <<storeVars, routerVars, wireVars, pushOrder, lifeVars, exchange>>

\* handle up to the call of http.DefaultClient.Do
HandleBuild(r) ==
    /\ ~crashed
    /\ phase[r] = "ADMITTED"
    /\ IF ~ValidMethod(reqs[r].Method)
       THEN \* http.NewRequestWithContext fails: p.Reply <- ProxyResponse{Err: err}
            /\ CanSendReply(reqs[r].Reply)
            /\ reply' = [reply EXCEPT ![reqs[r].Reply] = Append(@, ProxyResponse(r, 0, "nil", "", "request error"))]
            /\ phase' = [phase EXCEPT ![r] = AfterBuildError]
            /\ UNCHANGED wireVars
            /\ UNCHANGED <<queue, ch, chClosed, worker, reqs, returned, upstreamCalls, crashed, panicMsg,
                           now, firstPush, lastAdmit>>
       ELSE IF reqs[r].Headers = "nil"
       THEN \* p.Headers.Clone() of a nil Header is nil; req.Header.Set writes a nil map
            Panic("assignment to entry in nil map") /\ UNCHANGED wireVars
       ELSE /\ phase' = [phase EXCEPT ![r] = "IN_FLIGHT"]
            /\ upstreamCalls' = upstreamCalls + 1
            /\ outbound' = [outbound EXCEPT ![r] = Set(headerMaps[r], "Authorization", Credential)]
            /\ headerMaps' = [headerMaps EXCEPT ![r] =
                              CallerHeadersAfterSet(@, "Authorization", Credential)]
            /\ UNCHANGED callerReq
            /\ UNCHANGED <<queue, ch, chClosed, worker, reqs, reply, returned, crashed, panicMsg, now,
                           firstPush, lastAdmit>>
    /\ UNCHANGED <<storeVars, routerVars, admitOrder, pushOrder, lifeVars, exchange>>

\* handle from the return of http.DefaultClient.Do to the send on p.Reply
UpstreamAnswer(r) ==
    /\ ~crashed
    /\ phase[r] = "IN_FLIGHT"
    /\ CanSendReply(reqs[r].Reply)
    /\ \E outcome \in Outcomes :
          /\ reply' = [reply EXCEPT ![reqs[r].Reply] = Append(@, ExchangeResponse(r, outcome))]
          /\ phase' = [phase EXCEPT ![r] = PhaseAfter(outcome)]
          /\ exchange' = [exchange EXCEPT ![r] = outcome]
    /\ UNCHANGED <<queue, ch, chClosed, worker, reqs, returned, upstreamCalls, crashed,
                   panicMsg, now, firstPush, lastAdmit>>
    /\ UNCHANGED <<storeVars, routerVars, wireVars, admitOrder, pushOrder, lifeVars>>

\* close(q.ch); closing a closed channel panics
CloseChan ==
    IF chClosed
    THEN Panic("close of closed channel")
    ELSE /\ chClosed' = TRUE
         /\ UNCHANGED <<queue, ch, worker, reqs, phase, reply, returned, upstreamCalls,
                        crashed, panicMsg, now, firstPush, lastAdmit>>

\* Queue.Close
Close ==
    /\ ~crashed
    /\ queue.made
    /\ CloseChan
    /\ UNCHANGED <<storeVars, routerVars, wireVars, admitOrder, pushOrder, lifeVars, exchange>>

(***************************************************************************)
(* App.Close, SessionManager.Close and the Close of the two repositories   *)
(***************************************************************************)
\* a DB whose second Close fails
DBClose_strict(closed) == IF closed THEN "sql: database is closed" ELSE "nil"

\* r.db.Close() of database/sql, which returns nil for a DB already closed
DBClose(closed) == "nil"

\* Repository.Close: MemoryRepository returns nil, SQLiteRepository closes its DB
RepositoryClose ==
    IF backend = "sqlite" THEN DBClose(repoCloses > 0) ELSE "nil"

\* SessionManager.Close called on its own: return sm.repository.Close()
SessionManagerClose ==
    /\ ~crashed
    /\ repoCloses < MaxCloses
    /\ repoCloses' = repoCloses + 1
    /\ repoCloseErr' = RepositoryClose
    /\ UNCHANGED <<queue, ch, chClosed, worker, reqs, phase, reply, returned, upstreamCalls,
                   crashed, panicMsg, now, firstPush, lastAdmit, admitOrder, pushOrder, app, exchange>>
    /\ UNCHANGED <<storeVars, routerVars, wireVars>>

\* App.Close up to the return of a.Queue.Close()
AppClose_Queue ==
    /\ ~crashed
    /\ queue.made
    /\ app \in {"running", "closed"}
    /\ CloseChan
    /\ app' = IF chClosed THEN app ELSE "closing"
    /\ UNCHANGED <<storeVars, routerVars, wireVars, admitOrder, pushOrder, repoCloses, repoCloseErr, exchange>>

\* App.Close from a.SessionManager.Close() to its return
AppClose_Store ==
    /\ ~crashed
    /\ app = "closing"
    /\ repoCloses' = repoCloses + 1
    /\ repoCloseErr' = RepositoryClose
    /\ app' = "closed"
    /\ UNCHANGED <<queue, ch, chClosed, worker, reqs, phase, reply, returned, upstreamCalls,
                   crashed, panicMsg, now, firstPush, lastAdmit, admitOrder, pushOrder, exchange>>
    /\ UNCHANGED <<storeVars, routerVars, wireVars>>

\* the worker sleeps and time has to pass for it to go on
Sleeping == worker.pc = "sleep" /\ now < worker.wakeAt

\* time passes
Tick ==
    /\ ~crashed
    /\ now < MaxTime \/ Sleeping
    /\ now' = now + 1
    /\ UNCHANGED <<queue, ch, chClosed, worker, reqs, phase, reply, returned, upstreamCalls,
                   crashed, panicMsg, firstPush, lastAdmit>>
    /\ UNCHANGED <<storeVars, routerVars, wireVars, admitOrder, pushOrder, lifeVars, exchange>>

(***************************************************************************)
(***************************************************************************)
(* The routing of an inbound path (extractSessionID, removeSessionFromPath)*)
(***************************************************************************)
RouterInit ==
    /\ inPath = <<>>
    /\ route = NoRoute

\* the handler computes the session id and the upstream path of the request
Route ==
    /\ route = NoRoute
    /\ route' = [sessionID |-> extractSessionID(inPath),
                 upstreamPath |-> removeSessionFromPath(inPath)]
    /\ UNCHANGED <<storeVars, queueVars, inPath, handler>>

\* the path of the request is read, one segment after the other
ReadSegment ==
    /\ route = NoRoute
    /\ Len(inPath) < MaxSegs
    /\ \E x \in Segments : inPath' = Append(inPath, x)
    /\ UNCHANGED <<storeVars, queueVars, route, handler>>

(***************************************************************************)
(* ProxyHandler.Handle: one inbound request after the other step, each     *)
(* handler being a caller of the session manager and of Queue.Push.        *)
(***************************************************************************)
\* the inbound requests handled concurrently
Handlers == Procs \cap Reqs

\* /v1/session/a/chat/completions, /v1/session/a/, /v1/session/a,
\* /v1/chat/completions, /v1/sessions/a/chat and /v1/
HandlerPaths ==
    { <<"v1", "session", "a", "chat", "completions">>,
      <<"v1", "session", "a", "">>,
      <<"v1", "session", "a">>,
      <<"v1", "chat", "completions">>,
      <<"v1", "sessions", "a", "chat">>,
      <<"v1", "">> }

\* no body was received
NoBody == [valid |-> FALSE, present |-> {"none"}, vals |-> [f \in UsageFields |-> 0]]

NoHandler ==
    [pc |-> "idle", path |-> <<>>, sessionID |-> "", upstreamPath |-> <<>>,
     forwarded |-> <<>>, ops |-> <<>>, existedAtPush |-> FALSE, err |-> "nil",
     failedOp |-> "none", failedAt |-> "none",
     body |-> NoBody, usage |-> NoUsage, parseErr |-> FALSE, recorded |-> FALSE,
     status |-> 0, out |-> ""]

HandlerInit == handler = [h \in Handlers |-> NoHandler]

\* the upstream path of a session request with nothing after the id is /v1/
EmptyRest_never(upstreamPath) == FALSE

EmptyRest(upstreamPath) == upstreamPath = <<"v1", "">>

\* the request the handler hands to Push: the inbound method and headers
HandlerRequest == ProxyRequest("POST", "map")

\* the store variables a call into the session manager leaves alone
storeRest == <<backend, sessions, mu, db, dbLock, nCalls, applied, additive>>

\* the status of the handler's own error responses
ErrorStatus(kind) ==
    CASE kind = "Missing OpenAI endpoint" -> 400
      [] kind = "Failed to retrieve session" -> 500
      [] kind = "Failed to initialize session" -> 500
      [] kind = "Failed to update session" -> 500
      [] kind = "Proxy error" -> 502

\* http.Error(w, msg, status)
Fail(h, kind, err) ==
    [handler[h] EXCEPT !.pc = "done", !.status = ErrorStatus(kind),
                       !.out = kind, !.err = err]

\* the call of the session manager a handler issues
HandlerCall(op, id, u) == [op |-> op, id |-> id, usage |-> u, via |-> "Handle"]

\* the request arrives: route it, reject it, look its session up or go on to Push
HandleRoute(h) ==
    /\ ~crashed
    /\ handler[h].pc = "idle"
    /\ \E path \in HandlerPaths :
          LET sessionID == extractSessionID(path)
              upstreamPath == removeSessionFromPath(path)
              routed == [handler[h] EXCEPT !.path = path, !.sessionID = sessionID,
                                           !.upstreamPath = upstreamPath]
          IN  IF sessionID # "" /\ EmptyRest(upstreamPath)
              THEN /\ handler' = [handler EXCEPT ![h] =
                                    [routed EXCEPT !.pc = "done",
                                                   !.status = ErrorStatus("Missing OpenAI endpoint"),
                                                   !.out = "Missing OpenAI endpoint"]]
                   /\ UNCHANGED storeVars
              ELSE IF sessionID # ""
              THEN /\ BeginCall(h, HandlerCall("GetSession", sessionID, NoUsage))
                   /\ handler' = [handler EXCEPT ![h] =
                                    [routed EXCEPT !.pc = "get",
                                                   !.ops = Append(@, "GetSession")]]
                   /\ UNCHANGED <<storeRest, lastCreate>>
              ELSE /\ handler' = [handler EXCEPT ![h] = [routed EXCEPT !.pc = "push"]]
                   /\ UNCHANGED storeVars
    /\ UNCHANGED <<queueVars, inPath, route>>

\* GetSession returned: the session is there, is to be created, or the lookup failed
HandleGot(h) ==
    /\ ~crashed
    /\ handler[h].pc = "get"
    /\ pc[h] = "returned"
    /\ IF ret[h].err = "nil"
       THEN /\ handler' = [handler EXCEPT ![h].pc = "push"]
            /\ UNCHANGED storeVars
       ELSE IF ret[h].err = "ErrSessionNotFound"
       THEN /\ BeginCall(h, HandlerCall("CreateSession", handler[h].sessionID, NoUsage))
            /\ handler' = [handler EXCEPT ![h].pc = "create",
                                          ![h].ops = Append(@, "CreateSession")]
            /\ UNCHANGED <<storeRest, lastCreate>>
       ELSE /\ handler' = [handler EXCEPT ![h] =
                             Fail(h, "Failed to retrieve session", ret[h].err)]
            /\ UNCHANGED storeVars
    /\ UNCHANGED <<queueVars, inPath, route>>

\* CreateSession returned
HandleCreated(h) ==
    /\ ~crashed
    /\ handler[h].pc = "create"
    /\ pc[h] = "returned"
    /\ handler' = [handler EXCEPT ![h] =
                     IF ret[h].err = "nil"
                     THEN [handler[h] EXCEPT !.pc = "push"]
                     ELSE Fail(h, "Failed to initialize session", ret[h].err)]
    /\ UNCHANGED <<storeVars, queueVars, inPath, route>>

\* resp := q.Push(ProxyRequest{Method, Path: upstream path, Headers, Body}), up to the send
HandleSubmit(h) ==
    /\ handler[h].pc = "push"
    /\ PushSendOf(h, {HandlerRequest})
    /\ handler' = [handler EXCEPT
                     ![h].pc = "await",
                     ![h].ops = Append(@, "Push"),
                     ![h].forwarded = handler[h].upstreamPath,
                     ![h].existedAtPush = handler[h].sessionID \in DOMAIN StoreView]
    /\ UNCHANGED <<storeVars, inPath, route, admitOrder, lifeVars, exchange>>

\* Push returned: a failure of the queue is answered 502; the response of a
\* request without session is written as it is; the body of a session
\* request is parsed for its usage, which is recorded when there is one
HandleResponse(h) ==
    /\ ~crashed
    /\ handler[h].pc = "await"
    /\ returned[h] # <<>>
    /\ LET resp == returned[h][1]
       IN  IF resp.Err # "nil"
           THEN /\ handler' = [handler EXCEPT ![h] = Fail(h, "Proxy error", resp.Err)]
                /\ UNCHANGED storeVars
           ELSE \E b \in Bodies :
                  LET parsed == ParseTokenUsageFromResponse(b)
                      got == [handler[h] EXCEPT !.body = b, !.parseErr = parsed.err]
                  IN  IF handler[h].sessionID = "" \/ parsed.err \/ parsed.isNil
                      THEN /\ handler' = [handler EXCEPT ![h] =
                                            [got EXCEPT !.pc = "done",
                                                        !.status = resp.StatusCode,
                                                        !.out = "upstream body"]]
                           /\ UNCHANGED storeVars
                      ELSE /\ BeginCall(h, HandlerCall("UpdateSessionTokens",
                                                       handler[h].sessionID, parsed.usage))
                           /\ lastCreate' = [lastCreate EXCEPT ![handler[h].sessionID] =
                                               LastCreateNone(handler[h].sessionID)]
                           /\ handler' = [handler EXCEPT ![h] =
                                            [got EXCEPT !.pc = "update",
                                                        !.usage = parsed.usage,
                                                        !.ops = Append(@, "UpdateSessionTokens")]]
                           /\ UNCHANGED storeRest
    /\ UNCHANGED <<queueVars, inPath, route>>

\* UpdateSessionTokens returned: the upstream's response is written
HandleRecorded(h) ==
    /\ ~crashed
    /\ handler[h].pc = "update"
    /\ pc[h] = "returned"
    /\ handler' = [handler EXCEPT ![h] =
                     IF ret[h].err = "nil"
                     THEN [handler[h] EXCEPT !.pc = "done", !.recorded = TRUE,
                                             !.status = returned[h][1].StatusCode,
                                             !.out = "upstream body"]
                     ELSE Fail(h, "Failed to update session", ret[h].err)]
    /\ UNCHANGED <<storeVars, queueVars, inPath, route>>

\* a repository that reports every failure of the database as a missing session
WrapErr_notFound(op) == "ErrSessionNotFound"

\* fmt.Errorf("failed to ...: %w", err): an error that is not ErrSessionNotFound
WrapErr(op) == "storage error"

\* a failed method that leaves the rows its transaction wrote
Rollback_keep(tab, tx) == IF DOMAIN tx = {} THEN tab ELSE tx

\* defer tx.Rollback(): the table is what it was before the transaction
Rollback(tab, tx) == tab

\* the database fails a statement or a commit: the transaction is rolled
\* back and the method returns the wrapped error; the handler whose call it
\* was is marked with the method that failed and the place it failed at
SQLite_Fail(p) ==
    /\ pc[p] \in {"sget_query", "screate_insert", "screate_commit",
                  "supd_upsert", "supd_commit"}
    /\ Return(p, heap, WrapErr(call[p].op), EmptyMap)
    /\ db' = Rollback(db, local[p].tx)
    /\ dbLock' = IF dbLock = p THEN NoProc ELSE dbLock
    /\ handler' = [h \in DOMAIN handler |->
                     IF h = p THEN [handler[h] EXCEPT !.failedOp = call[p].op,
                                                      !.failedAt = pc[p]]
                     ELSE handler[h]]
    /\ UNCHANGED <<queueVars, inPath, route, backend, sessions, mu, nCalls, applied,
                   lastCreate, additive>>

(***************************************************************************)
RepositoryInit ==
    /\ backend \in Backends
    /\ heap = EmptyMap
    /\ sessions = EmptyMap
    /\ mu = Unlocked
    /\ db = EmptyMap
    /\ dbLock = NoProc
    /\ pc = [p \in Procs |-> "idle"]
    /\ call = [p \in Procs |-> NoCall]
    /\ local = [p \in Procs |-> NoLocal]
    /\ ret = [p \in Procs |-> NoRet]
    /\ mutated = [p \in Procs |-> FALSE]
    /\ nCalls = 0
    /\ applied = [id \in IDs |-> [p |-> 0, c |-> 0, t |-> 0, n |-> 0]]
    /\ lastCreate = [id \in IDs |-> LastCreateNone(id)]
    /\ additive = [id \in IDs |-> TRUE]

Init ==
    /\ RepositoryInit
    /\ QueueInit
    /\ RouterInit
    /\ HandlerInit

Next ==
    \E p \in Procs :
        \/ InvokeGetSession(p)
        \/ InvokeCreateSession(p)
        \/ InvokeUpdateSessionTokens(p)
        \/ InvokeListSessions(p)
        \/ HandleSingle(p)
        \/ MutateReturned(p)
        \/ Mem_GetSession_RLock(p)
        \/ Mem_GetSession_Body(p)
        \/ Mem_CreateSession_Lock(p)
        \/ Mem_CreateSession_Body(p)
        \/ Mem_UpdateSessionTokens_Lock(p)
        \/ Mem_UpdateSessionTokens_Load(p)
        \/ Mem_UpdateSessionTokens_Store(p)
        \/ Mem_ListSessions_RLock(p)
        \/ Mem_ListSessions_Body(p)
        \/ SQLite_GetSession(p)
        \/ SQLite_CreateSession_Insert(p)
        \/ SQLite_CreateSession_Commit(p)
        \/ SQLite_UpdateSessionTokens_Upsert(p)
        \/ SQLite_UpdateSessionTokens_Commit(p)
        \/ SQLite_ListSessions(p)

Spec == Init /\ [][Next]_vars

(***************************************************************************)
(* The queue under concurrent Push calls.                                  *)
(***************************************************************************)
QueueStart == Init /\ backend = "memory"

QueueNext ==
    \/ NewQueue
    \/ WorkerRecv
    \/ WorkerExit
    \/ WorkerLaunch
    \/ Close
    \/ Tick
    \/ \E r \in Reqs :
          \/ PushSend(r)
          \/ PushReturn(r)
          \/ HandleBuild(r)
          \/ UpstreamAnswer(r)

QueueSpec == QueueStart /\ [][QueueNext]_vars

\* the Go scheduler runs every goroutine that can run, the clock advances, and
\* the upstream answers or fails; callers of Push and Close are under no obligation
QueueFairness ==
    /\ WF_vars(WorkerRecv)
    /\ WF_vars(WorkerExit)
    /\ WF_vars(WorkerLaunch)
    /\ WF_vars(Tick)
    /\ \A r \in Reqs :
          /\ WF_vars(PushReturn(r))
          /\ WF_vars(HandleBuild(r))
          /\ WF_vars(UpstreamAnswer(r))

QueueFairSpec == QueueStart /\ [][QueueNext]_vars /\ QueueFairness

(***************************************************************************)
(* The application: the queue, either repository, and their shutdown.      *)
(***************************************************************************)
AppNext ==
    \/ QueueNext
    \/ SessionManagerClose
    \/ AppClose_Queue
    \/ AppClose_Store

AppSpec == Init /\ [][AppNext]_vars

\* the routing of inbound paths alone
RouterStart == Init /\ backend = "memory"

RouterNext == ReadSegment \/ Route

RouterSpec == RouterStart /\ [][RouterNext]_vars

\* the two repositories driven by one sequence of calls
BothStart == Init /\ backend = "memory"

BothNext ==
    \/ BothInvoke
    \/ Mem_GetSession_RLock(MemCaller)
    \/ Mem_GetSession_Body(MemCaller)
    \/ Mem_CreateSession_Lock(MemCaller)
    \/ Mem_CreateSession_Body(MemCaller)
    \/ Mem_UpdateSessionTokens_Lock(MemCaller)
    \/ Mem_UpdateSessionTokens_Load(MemCaller)
    \/ Mem_UpdateSessionTokens_Store(MemCaller)
    \/ Mem_ListSessions_RLock(MemCaller)
    \/ Mem_ListSessions_Body(MemCaller)
    \/ SQLite_GetSession(SQLCaller)
    \/ SQLite_CreateSession_Insert(SQLCaller)
    \/ SQLite_CreateSession_Commit(SQLCaller)
    \/ SQLite_UpdateSessionTokens_Upsert(SQLCaller)
    \/ SQLite_UpdateSessionTokens_Commit(SQLCaller)
    \/ SQLite_ListSessions(SQLCaller)

BothSpec == BothStart /\ [][BothNext]_vars

\* inbound requests handled concurrently over either repository and the queue
HandlerNext ==
    \/ NewQueue
    \/ WorkerRecv
    \/ WorkerLaunch
    \/ Tick
    \/ \E h \in Handlers :
          \/ HandleRoute(h)
          \/ HandleGot(h)
          \/ HandleCreated(h)
          \/ HandleSubmit(h)
          \/ HandleResponse(h)
          \/ HandleRecorded(h)
          \/ PushReturn(h)
          \/ HandleBuild(h)
          \/ UpstreamAnswer(h)
          \/ Mem_GetSession_RLock(h)
          \/ Mem_GetSession_Body(h)
          \/ Mem_CreateSession_Lock(h)
          \/ Mem_CreateSession_Body(h)
          \/ Mem_UpdateSessionTokens_Lock(h)
          \/ Mem_UpdateSessionTokens_Load(h)
          \/ Mem_UpdateSessionTokens_Store(h)
          \/ SQLite_GetSession(h)
          \/ SQLite_CreateSession_Insert(h)
          \/ SQLite_CreateSession_Commit(h)
          \/ SQLite_UpdateSessionTokens_Upsert(h)
          \/ SQLite_UpdateSessionTokens_Commit(h)
          \/ SQLite_Fail(h)

HandlerSpec == Init /\ [][HandlerNext]_vars

\* a queue nobody closes, with more callers of Push than the channel has room for
BackpressureNext ==
    \/ NewQueue
    \/ WorkerRecv
    \/ WorkerLaunch
    \/ Tick
    \/ \E r \in AllReqs :
          \/ PushSend(r)
          \/ PushReturn(r)
          \/ HandleBuild(r)
          \/ UpstreamAnswer(r)

BackpressureSpec == QueueStart /\ [][BackpressureNext]_vars

\* every caller stands in Push: its send goes on as soon as the channel has
\* room, and the Go scheduler runs every goroutine that can run
BackpressureFairness ==
    /\ WF_vars(WorkerRecv)
    /\ WF_vars(WorkerLaunch)
    /\ WF_vars(Tick)
    /\ \A r \in AllReqs :
          /\ WF_vars(PushSend(r))
          /\ WF_vars(PushReturn(r))
          /\ WF_vars(HandleBuild(r))
          /\ WF_vars(UpstreamAnswer(r))

BackpressureFairSpec == QueueStart /\ [][BackpressureNext]_vars /\ BackpressureFairness

\* construction and shutdown alone
ShutdownNext ==
    \/ NewQueue
    \/ Close
    \/ SessionManagerClose
    \/ AppClose_Queue
    \/ AppClose_Store

ShutdownSpec == Init /\ [][ShutdownNext]_vars


(***************************************************************************)
(* Properties of the repository.                                           *)
(***************************************************************************)
UpdateInProgress(id) ==
    \E p \in Procs : call[p].op = "UpdateSessionTokens" /\ call[p].id = id

\* the session whose counters are the sums of the usages handed to the store
AppliedSession(id) ==
    SessionData(id, applied[id].p, applied[id].c, applied[id].t, applied[id].n)

\* the stored value of id, a zero session when there is none
StoredOrZero(id) == IF id \in DOMAIN StoreView THEN StoreView[id] ELSE ZeroSession(id)

\* caller p holds the result of a finished call of op on id
Holds(p, op, id) ==
    pc[p] = "returned" /\ ret[p].op = op /\ ret[p].id = id /\ id \in DOMAIN ret[p].val

\* C1: whenever no UpdateSessionTokens call on an id is running, the stored
\* session of the id has the elementwise sums of the usages of all the calls
\* issued on it as its three totals and their number as its request_count,
\* whatever the interleaving of the callers: no update is lost.
C1_NoLostUpdate ==
    \A id \in IDs :
        ~UpdateInProgress(id) =>
            IF applied[id].n = 0
            THEN StoredOrZero(id) = ZeroSession(id)
            ELSE id \in DOMAIN StoreView /\ StoreView[id] = AppliedSession(id)

\* two callers have each finished an update of "a", one with (10,0,10) and one
\* with (5,0,5): the session holds 15 tokens in 2 requests
C1_Witness ==
    /\ \A p \in Procs : Holds(p, "UpdateSessionTokens", "a")
    /\ applied["a"] = [p |-> 15, c |-> 0, t |-> 15, n |-> 2]
    /\ StoreView["a"].TotalTokens = 15
    /\ StoreView["a"].RequestCount = 2

\* C2: the step on which an UpdateSessionTokens call returns hands the caller
\* the stored session as it was just before plus the call's own usage and one
\* more request (exactly the usage with request_count 1 when the id was
\* absent), which is also what the store holds right after; its request_count
\* exceeds that of every result of the same id still held by another caller,
\* and it carries the sums of all the usages applied so far.
C2_ReturnsOwnPostUpdate ==
    [][\A p \in Procs :
        (call[p].op = "UpdateSessionTokens" /\ pc'[p] = "returned") =>
            LET id == call[p].id
                u == call[p].usage
                before == StoredOrZero(id)
                r == ret'[p].val[id]
            IN  /\ ret'[p].err = "nil"
                /\ r = SessionData(id,
                                   before.TotalPromptTokens + u.PromptTokens,
                                   before.TotalCompletionTokens + u.CompletionTokens,
                                   before.TotalTokens + u.TotalTokens,
                                   before.RequestCount + 1)
                /\ (id \notin DOMAIN StoreView =>
                      r = SessionData(id, u.PromptTokens, u.CompletionTokens,
                                      u.TotalTokens, 1))
                /\ StoreView'[id] = r
                /\ \A q \in Procs \ {p} :
                      Holds(q, "UpdateSessionTokens", id) =>
                          ret[q].val[id].RequestCount < r.RequestCount
                /\ r = SessionData(id, applied'[id].p, applied'[id].c,
                                   applied'[id].t, applied'[id].n)
      ]_vars

\* two callers hold the results of their updates of one id, with consecutive
\* request counts 1 and 2
C2_Witness ==
    \E p, q \in Procs :
        /\ p # q
        /\ Holds(p, "UpdateSessionTokens", "a")
        /\ Holds(q, "UpdateSessionTokens", "a")
        /\ ret[p].val["a"].RequestCount = 1
        /\ ret[q].val["a"].RequestCount = 2
        /\ ret[q].val["a"] = AppliedSession("a")

\* C3: the step on which a CreateSession call returns gives no error; on an
\* absent id it stores and returns the zero session, on a present id it
\* returns the stored session and leaves it as it is (no counter reset, no
\* request counted); and it returns the value the previous CreateSession of
\* the id returned when no update of the id came in between.
C3_CreateIdempotent ==
    [][\A p \in Procs :
        (call[p].op = "CreateSession" /\ pc'[p] = "returned") =>
            LET id == call[p].id
                r == ret'[p].val[id]
            IN  /\ ret'[p].err = "nil"
                /\ r = StoredOrZero(id)
                /\ id \in DOMAIN StoreView'
                /\ StoreView'[id] = r
                /\ applied' = applied
                /\ (lastCreate[id].set => r = lastCreate[id].val)
      ]_vars

\* a CreateSession has returned a session that had already counted a request
C3_Witness ==
    \E p \in Procs, id \in IDs :
        /\ Holds(p, "CreateSession", id)
        /\ ret[p].val[id].RequestCount > 0
        /\ ret[p].val[id] = StoreView[id]

\* C4: a GetSession of an id the store does not hold (called directly or by
\* HandleSingle on /v1/session/{id}/status) returns ErrSessionNotFound (404
\* from the handler) and leaves the stored sessions as they are; the set of
\* stored ids changes only on a step of a CreateSession or an
\* UpdateSessionTokens call.
C4_ReadNeverCreates ==
    [][/\ \A p \in Procs :
            (call[p].op = "GetSession" /\ pc'[p] = "returned"
               /\ call[p].id \notin DOMAIN StoreView) =>
                /\ ret'[p].err = "ErrSessionNotFound"
                /\ ret'[p].ptrs = EmptyMap
                /\ (call[p].via = "HandleSingle" => ret'[p].status = 404)
                /\ StoreView' = StoreView
       /\ (DOMAIN StoreView' # DOMAIN StoreView =>
             \E p \in Procs :
                /\ pc'[p] # pc[p]
                /\ call[p].op \in {"CreateSession", "UpdateSessionTokens"})
      ]_vars

\* the handler has answered 404 for an id while the store holds no session of it
C4_Witness ==
    \E p \in Procs, id \in IDs :
        /\ pc[p] = "returned"
        /\ ret[p].op = "GetSession"
        /\ ret[p].id = id
        /\ ret[p].status = 404
        /\ id \notin DOMAIN StoreView

\* C5: a value a caller holds changes on no step but the caller's own write
\* to it, so no later mutation of the store reaches it; and a caller's write
\* to the value it holds changes nothing the store holds nor what any other
\* caller holds.
C5_ReturnedValuesAreCopies ==
    [][/\ \A p \in Procs :
            (pc[p] = "returned" /\ pc'[p] = "returned" /\ ret'[p] = ret[p]
               /\ mutated'[p] = mutated[p]) =>
                \A k \in DOMAIN ret[p].ptrs :
                    /\ ret[p].ptrs[k] \in DOMAIN heap'
                    /\ heap'[ret[p].ptrs[k]] = heap[ret[p].ptrs[k]]
       /\ (\E p \in Procs : mutated'[p] /\ ~mutated[p] /\ pc[p] = "returned") =>
             StoreView' = StoreView
      ]_vars

\* a caller holds the unmodified result of ListSessions while the store has
\* moved on, and another caller has written to the value it was handed
C5_Witness ==
    \E p \in Procs, q \in Procs, id \in IDs :
        /\ pc[p] = "returned"
        /\ ret[p].op = "ListSessions"
        /\ ~mutated[p]
        /\ id \in DOMAIN ret[p].ptrs
        /\ heap[ret[p].ptrs[id]] # StoreView[id]
        /\ q # p
        /\ mutated[q]

\* C6: on every step every counter of every stored session is non-negative
\* and not smaller than it was.
C6_CountersNonNegativeMonotone ==
    [][\A id \in DOMAIN StoreView' :
          /\ StoreView'[id].TotalPromptTokens >= 0
          /\ StoreView'[id].TotalCompletionTokens >= 0
          /\ StoreView'[id].TotalTokens >= 0
          /\ StoreView'[id].RequestCount >= 0
          /\ (id \in DOMAIN StoreView =>
                /\ StoreView'[id].TotalPromptTokens >= StoreView[id].TotalPromptTokens
                /\ StoreView'[id].TotalCompletionTokens >= StoreView[id].TotalCompletionTokens
                /\ StoreView'[id].TotalTokens >= StoreView[id].TotalTokens
                /\ StoreView'[id].RequestCount >= StoreView[id].RequestCount)
      ]_vars

C8_EveryPushReturns ==
    \A r \in Reqs :
        (phase[r] = "QUEUED") ~> (Len(returned[r]) = 1 \/ chClosed)

(***************************************************************************)
(* C9. With a positive limit, a step that admits a request (go q.handle)   *)
(* comes at least one interval after the previous admission, and the k-th  *)
(* admission comes at least k intervals after the first request was        *)
(* queued.                                                                 *)
(***************************************************************************)
C9_AdmissionsPaced ==
    [][ (queue.limitPerMin > 0 /\ Admitted' # Admitted) =>
            /\ lastAdmit # Never => now' - lastAdmit >= queue.interval
            /\ now' - firstPush >= Cardinality(Admitted') * queue.interval ]_vars

\* every request of a burst was admitted under a limit whose interval is positive
C9_Witness ==
    /\ queue.made
    /\ queue.limitPerMin > 0
    /\ queue.interval > 0
    /\ Cardinality(Admitted) = NumReqs
    /\ now >= firstPush + NumReqs * queue.interval

(***************************************************************************)
(* C10. Exchanges in flight never hold the worker back: whenever a request *)
(* is queued the worker can take it, and once its sleep is over it can     *)
(* admit it, however many exchanges have not completed.                    *)
(***************************************************************************)
C10_InFlightNeverDelaysAdmission ==
    /\ (~crashed /\ worker.pc = "recv" /\ ch # <<>>) => ENABLED WorkerRecv
    /\ (~crashed /\ worker.pc = "sleep" /\ now >= worker.wakeAt) => ENABLED WorkerLaunch

\* every submitted request has its exchange in flight at the same time
C10_Witness ==
    /\ ~crashed
    /\ Cardinality(InFlight) = NumReqs
    /\ upstreamCalls = NumReqs

(***************************************************************************)
(* C11. Every response a Push call returns is the one the exchange of its  *)
(* own request produced, in whatever order the exchanges complete.         *)
(***************************************************************************)
C11_OwnResponse ==
    \A r \in Reqs : \A i \in DOMAIN returned[r] : returned[r][i].for = r

\* the request admitted later has its own response back while the exchange of
\* the one admitted first still runs
C11_Witness ==
    \E i, j \in DOMAIN admitOrder :
        /\ i < j
        /\ phase[admitOrder[i]] = "IN_FLIGHT"
        /\ returned[admitOrder[j]] # <<>>
        /\ returned[admitOrder[j]][1].for = admitOrder[j]
        /\ returned[admitOrder[j]][1].StatusCode = 200

(***************************************************************************)
(* C12. Queue.Close may be called again: no call of it panics, and a call  *)
(* on a closed queue leaves the queue closed.                              *)
(***************************************************************************)
C12_CloseIdempotent == panicMsg # "close of closed channel"

(***************************************************************************)
(* C13. NewQueue never panics, whatever limit it is given, and the queue   *)
(* it builds has a positive interval, so that admissions are paced also    *)
(* for a limit of zero or below.                                           *)
(***************************************************************************)
C13_NonPositiveLimitDefaults ==
    /\ panicMsg # "integer divide by zero"
    /\ queue.made => queue.interval > 0

(***************************************************************************)
(* C14. Every call of Close on the repository of either backend, made      *)
(* directly, through SessionManager.Close or by App.Close, returns no      *)
(* error, the calls after the first included.                              *)
(***************************************************************************)
C14_RepositoryCloseIdempotent ==
    repoCloses >= 1 => repoCloseErr = "nil"

\* the SQLite repository was closed a second time
C14_Witness ==
    /\ backend = "sqlite"
    /\ repoCloses >= 2
    /\ repoCloseErr = "nil"

(***************************************************************************)
(* C16. When App.Close closes the store, no request is queued, admitted or *)
(* in flight.                                                              *)
(***************************************************************************)
C16_StoreClosedAfterDrain ==
    [][ (app = "closing" /\ app' = "closed") =>
            \A r \in Reqs : phase[r] \notin {"QUEUED", "ADMITTED", "IN_FLIGHT"} ]_vars

(***************************************************************************)
(* C15. Every request that is queued, admitted or in flight when the queue *)
(* is closed still has its Push call return a response, when every         *)
(* goroutine that can run does and the upstream answers or fails.          *)
(***************************************************************************)
C15_CloseAbortsNothing ==
    \A r \in Reqs :
        (chClosed /\ phase[r] \in {"QUEUED", "ADMITTED", "IN_FLIGHT"})
            ~> (Len(returned[r]) = 1)

Sent(r) ==
    { x \in UNION { Range(returned[c]) \cup Range(reply[c]) : c \in AllReqs } : x.for = r }

(***************************************************************************)
(* C18. The response of a request that could not be built or whose         *)
(* exchange failed at transport level has Err set, StatusCode 0, no        *)
(* headers and no body; the response of an exchange that succeeded has Err *)
(* unset and the upstream's status code, headers and body.                 *)
(***************************************************************************)
C18_ResponseShape ==
    \A r \in Reqs : \A x \in Sent(r) :
        /\ (exchange[r] \in {"none", "transport error"}) =>
               /\ x.Err # "nil"
               /\ x.StatusCode = 0
               /\ x.Headers = "nil"
               /\ x.Body = ""
        /\ (exchange[r] \in {"ok", "error status"}) =>
               /\ x.Err = "nil"
               /\ x.StatusCode = UpstreamStatus(exchange[r])
               /\ x.Headers = "upstream"
               /\ x.Body = "full"

\* one Push returned a transport failure, another the upstream's 200
C18_Witness ==
    \E a, b \in Reqs :
        /\ exchange[a] = "transport error"
        /\ returned[a] # <<>>
        /\ returned[a][1].Err = "transport error"
        /\ exchange[b] = "ok"
        /\ returned[b] # <<>>
        /\ returned[b][1].StatusCode = 200

(***************************************************************************)
(* C19. The response of an exchange whose status arrived and whose body    *)
(* could not be read has Err set to a failure other than the transport     *)
(* failure and carries the upstream's headers.                             *)
(***************************************************************************)
C19_BodyReadFailureReported ==
    \A r \in Reqs : \A x \in Sent(r) :
        exchange[r] = "read error" =>
            /\ x.Err \notin {"nil", "transport error"}
            /\ x.Headers = "upstream"

\* /v1/session/{id}/<rest> with a non-empty id and a non-empty rest
IsSessionForm(path) ==
    /\ Len(path) >= 4
    /\ path[1] = "v1"
    /\ path[2] = "session"
    /\ path[3] # ""
    /\ ~(Len(path) = 4 /\ path[4] = "")

(***************************************************************************)
(* C20. A path /v1/session/{id}/<rest> with non-empty id and non-empty     *)
(* rest is routed to the session id {id} and the upstream path /v1/<rest>. *)
(***************************************************************************)
C20_SessionPathRouted ==
    (route # NoRoute /\ IsSessionForm(inPath)) =>
        /\ route.sessionID = inPath[3]
        /\ route.upstreamPath = <<"v1">> \o SubSeq(inPath, 4, Len(inPath))

\* /v1/session/abc123/chat/completions is routed to (abc123, /v1/chat/completions)
C20_Witness ==
    /\ inPath = <<"v1", "session", "abc123", "chat", "completions">>
    /\ route = [sessionID |-> "abc123", upstreamPath |-> <<"v1", "chat", "completions">>]

(***************************************************************************)
(* C29. A Push that runs concurrently with or after Close never crashes    *)
(* the process: no behaviour of Push and Close ends in the panic of a send *)
(* on the closed channel.                                                  *)
(***************************************************************************)
C29_PushSurvivesClose == ~(crashed /\ chClosed /\ panicMsg = "send on closed channel")

\* seq is a prefix of of
IsPrefix(seq, of) ==
    /\ Len(seq) <= Len(of)
    /\ \A i \in DOMAIN seq : seq[i] = of[i]

(***************************************************************************)
(* C30. Requests are admitted in the order they entered the channel: the   *)
(* requests `go q.handle(req)` was run for, in that order, are the first   *)
(* of the requests sent into the channel, in the order they were sent.     *)
(***************************************************************************)
C30_FIFOAdmission == IsPrefix(admitOrder, pushOrder)

\* request 2 was sent and admitted before request 1,
\* and request 1 has its response while 2 is still in flight
C30_Witness ==
    /\ pushOrder = <<2, 1>>
    /\ admitOrder = <<2, 1>>
    /\ phase[2] = "IN_FLIGHT"
    /\ returned[1] # <<>>
    /\ firstPush # Never

(***************************************************************************)
(* C28. Started empty and given the same sequence of GetSession,           *)
(* CreateSession, UpdateSessionTokens and ListSessions calls, the          *)
(* MemoryRepository and the SQLiteRepository return equal results at every *)
(* call: the same error or not-found outcome and the same session values,  *)
(* and they hold the same sessions afterwards.                             *)
(***************************************************************************)
C28_BackendsEquivalent ==
    (pc[MemCaller] = "returned" /\ pc[SQLCaller] = "returned") =>
        /\ ret[MemCaller].op = ret[SQLCaller].op
        /\ ret[MemCaller].err = ret[SQLCaller].err
        /\ ret[MemCaller].val = ret[SQLCaller].val
        /\ MemView = db

\* after updates of "a" with (10,0,10) and (5,0,5), a GetSession of "b" is
\* answered not-found by both, and both hold "a" with 15 tokens in 2 requests
C28_Witness ==
    /\ nCalls = 3
    /\ pc[MemCaller] = "returned"
    /\ pc[SQLCaller] = "returned"
    /\ ret[MemCaller].op = "GetSession"
    /\ ret[MemCaller].id = "b"
    /\ ret[MemCaller].err = "ErrSessionNotFound"
    /\ ret[SQLCaller].err = "ErrSessionNotFound"
    /\ "a" \in DOMAIN db
    /\ db["a"].TotalTokens = 15
    /\ db["a"].RequestCount = 2
    /\ MemView = db

\* /v1/session/{id} or /v1/session/{id}/ with a non-empty id: nothing after the id
IsMalformedSession(path) ==
    /\ Len(path) \in {3, 4}
    /\ path[1] = "v1"
    /\ path[2] = "session"
    /\ path[3] # ""
    /\ Len(path) = 4 => path[4] = ""

\* the session operations a handler has run
SessionOps(h) ==
    { handler[h].ops[i] : i \in DOMAIN handler[h].ops } \ {"Push"}

\* the handler has sent its request into the queue
Enqueued(h) == phase[h] # "new" \/ \E i \in DOMAIN pushOrder : pushOrder[i] = h

(***************************************************************************)
(* C21. A request for /v1/session/{id}/ or /v1/session/{id} is answered    *)
(* with a client error (400) before anything else happens: the handler     *)
(* calls no GetSession, CreateSession or UpdateSessionTokens, the store    *)
(* is not called on its behalf and nothing is sent into the queue.         *)
(***************************************************************************)
C21_MalformedRejected ==
    \A h \in Handlers :
        (handler[h].pc # "idle" /\ IsMalformedSession(handler[h].path)) =>
            /\ handler[h].pc = "done"
            /\ handler[h].status = 400
            /\ handler[h].ops = <<>>
            /\ pc[h] = "idle"
            /\ ret[h] = NoRet
            /\ ~Enqueued(h)

\* /v1/session/a/ and /v1/session/a were both answered 400, with the store
\* empty and the queue untouched
C21_Witness ==
    /\ \E h \in Handlers :
          handler[h].path = <<"v1", "session", "a", "">> /\ handler[h].status = 400
    /\ \E h \in Handlers :
          handler[h].path = <<"v1", "session", "a">> /\ handler[h].status = 400
    /\ queue.made
    /\ pushOrder = <<>>
    /\ StoreView = EmptyMap

\* the path does not start with /v1/session/
NonSessionPath(path) ==
    ~(Len(path) >= 3 /\ path[1] = "v1" /\ path[2] = "session")

(***************************************************************************)
(* C22. A request whose path does not start with /v1/session/ is handed    *)
(* to the queue with its path unchanged, and the handler calls no          *)
(* GetSession, CreateSession or UpdateSessionTokens for it, whatever the   *)
(* body of the upstream's response holds.                                  *)
(***************************************************************************)
C22_NonSessionPassthrough ==
    \A h \in Handlers :
        (handler[h].pc # "idle" /\ NonSessionPath(handler[h].path)) =>
            /\ handler[h].sessionID = ""
            /\ handler[h].upstreamPath = handler[h].path
            /\ handler[h].pc \in {"push", "await", "done"}
            /\ SessionOps(h) = {}
            /\ pc[h] = "idle"
            /\ ret[h] = NoRet
            /\ Enqueued(h) => handler[h].forwarded = handler[h].path
            /\ handler[h].pc = "done" => handler[h].ops = <<"Push">>

\* /v1/chat/completions and /v1/sessions/a/chat were forwarded as they are and
\* answered with bodies that report and do not report usage; the store is empty
C22_Witness ==
    \E g, h \in Handlers :
        /\ handler[g].pc = "done"
        /\ handler[g].path = <<"v1", "chat", "completions">>
        /\ handler[g].forwarded = <<"v1", "chat", "completions">>
        /\ handler[g].body = Body(TRUE, UsageFields, 10, 0, 10)
        /\ handler[g].status = 200
        /\ handler[h].pc = "done"
        /\ handler[h].path = <<"v1", "sessions", "a", "chat">>
        /\ handler[h].forwarded = <<"v1", "sessions", "a", "chat">>
        /\ handler[h].body = Body(FALSE, {}, 0, 0, 0)
        /\ StoreView = EmptyMap

\* the handlers whose usage for id was recorded, and those recording it now
RecordedFor(id) ==
    { h \in Handlers : handler[h].sessionID = id /\ handler[h].recorded }

RecordingFor(id) ==
    { h \in Handlers : handler[h].sessionID = id /\ handler[h].pc = "update" }

RECURSIVE TotalOf(_)
\* the sum of the total_tokens the handlers of S decoded
TotalOf(S) ==
    IF S = {} THEN 0
    ELSE LET h == CHOOSE x \in S : TRUE
         IN  handler[h].usage.TotalTokens + TotalOf(S \ {h})

\* the client of h has the upstream's response, and its body reports usage
GotUsageResponse(h) ==
    /\ handler[h].pc = "done"
    /\ handler[h].out = "upstream body"
    /\ ~ParseTokenUsageFromResponse(handler[h].body).err
    /\ ~ParseTokenUsageFromResponse(handler[h].body).isNil

(***************************************************************************)
(* C23. For a request of session {id} the handler first makes sure the     *)
(* session exists, then sends the request into the queue, then records the *)
(* usage and only then answers: the session is in the store when the       *)
(* request is enqueued, and when the client has a response whose body      *)
(* reports non-zero usage, that usage has been added to session {id}       *)
(* exactly once.                                                           *)
(***************************************************************************)
C23_EnsureSubmitRecordReturn ==
    /\ \A h \in Handlers :
          handler[h].sessionID # "" =>
              /\ \/ IsPrefix(handler[h].ops,
                             <<"GetSession", "CreateSession", "Push", "UpdateSessionTokens">>)
                 \/ IsPrefix(handler[h].ops, <<"GetSession", "Push", "UpdateSessionTokens">>)
              /\ Enqueued(h) =>
                    /\ handler[h].existedAtPush
                    /\ handler[h].sessionID \in DOMAIN StoreView
              /\ GotUsageResponse(h) =>
                    /\ handler[h].recorded
                    /\ handler[h].usage = ParseTokenUsageFromResponse(handler[h].body).usage
                    /\ Len(SelectSeq(handler[h].ops,
                                     LAMBDA o : o = "UpdateSessionTokens")) = 1
    /\ \A id \in IDs :
          RecordingFor(id) = {} =>
              /\ StoredOrZero(id).RequestCount = Cardinality(RecordedFor(id))
              /\ StoredOrZero(id).TotalTokens = TotalOf(RecordedFor(id))

\* two clients of session a have their responses, one reporting (10,0,10) and
\* one (5,0,5); the first request created the session, and a holds 15 tokens
\* in 2 requests
C23_Witness ==
    \E g, h \in Handlers :
        /\ GotUsageResponse(g)
        /\ GotUsageResponse(h)
        /\ handler[g].body = Body(TRUE, UsageFields, 10, 0, 10)
        /\ handler[h].body = Body(TRUE, UsageFields, 5, 0, 5)
        /\ handler[g].ops = <<"GetSession", "CreateSession", "Push", "UpdateSessionTokens">>
        /\ handler[h].ops = <<"GetSession", "Push", "UpdateSessionTokens">>
        /\ "a" \in DOMAIN StoreView
        /\ StoreView["a"].TotalTokens = 15
        /\ StoreView["a"].RequestCount = 2

(***************************************************************************)
(* C24. When Push returns a response with Err set (the exchange failed to  *)
(* reach the upstream), the client is answered 502 with the failure's      *)
(* message, and the handler records no usage: it does not call             *)
(* UpdateSessionTokens for that request.                                   *)
(***************************************************************************)
C24_DispatcherFailureIs502 ==
    \A h \in Handlers :
        (/\ handler[h].pc = "done"
         /\ returned[h] # <<>>
         /\ returned[h][1].Err # "nil" \/ exchange[h] = "transport error") =>
            /\ handler[h].status = 502
            /\ handler[h].out = "Proxy error"
            /\ handler[h].err # "nil"
            /\ handler[h].err = returned[h][1].Err
            /\ "UpdateSessionTokens" \notin SessionOps(h)
            /\ ~handler[h].recorded

\* the exchange of a request of session a failed to reach the upstream: its
\* client was answered 502 and the session, created for it, still counts nothing
C24_Witness ==
    \E h \in Handlers :
        /\ handler[h].pc = "done"
        /\ handler[h].path = <<"v1", "session", "a", "chat", "completions">>
        /\ exchange[h] = "transport error"
        /\ handler[h].status = 502
        /\ handler[h].err = "transport error"
        /\ handler[h].ops = <<"GetSession", "CreateSession", "Push">>
        /\ "a" \in DOMAIN StoreView
        /\ StoreView["a"] = ZeroSession("a")

\* the handler of h has answered kind with a server error
Answered500(h, kind) ==
    /\ handler[h].pc = "done"
    /\ handler[h].status = 500
    /\ handler[h].out = kind
    /\ handler[h].err \notin {"nil", "ErrSessionNotFound"}

(***************************************************************************)
(* C25. When the lookup of the session fails with an error other than      *)
(* not-found, or its creation fails, the client is answered 500 and the    *)
(* request is never sent into the queue: no exchange with the upstream     *)
(* happens for it.                                                         *)
(***************************************************************************)
C25_StorageErrorIs500 ==
    \A h \in Handlers :
        /\ handler[h].failedOp = "GetSession" =>
              /\ handler[h].pc = "get" \/ Answered500(h, "Failed to retrieve session")
              /\ handler[h].ops = <<"GetSession">>
        /\ handler[h].failedOp = "CreateSession" =>
              /\ handler[h].pc = "create" \/ Answered500(h, "Failed to initialize session")
              /\ handler[h].ops = <<"GetSession", "CreateSession">>
        /\ handler[h].failedOp \in {"GetSession", "CreateSession"} =>
              /\ ~Enqueued(h)
              /\ reqs[h] = NoRequest
              /\ exchange[h] = "none"
              /\ returned[h] = <<>>

\* over SQLite, the lookup of one request and the creation for another failed:
\* both clients were answered 500 and the queue, though built, received nothing
C25_Witness ==
    \E g, h \in Handlers :
        /\ backend = "sqlite"
        /\ queue.made
        /\ handler[g].failedOp = "GetSession"
        /\ Answered500(g, "Failed to retrieve session")
        /\ handler[h].failedOp = "CreateSession"
        /\ Answered500(h, "Failed to initialize session")
        /\ pushOrder = <<>>
        /\ upstreamCalls = 0

(***************************************************************************)
(* C26. When the body of the upstream's response to a session request is   *)
(* not valid JSON, the client still gets the upstream's status and body    *)
(* and no error of the proxy, and the handler does not call                *)
(* UpdateSessionTokens for that request.                                   *)
(***************************************************************************)
C26_ParseFailureHidden ==
    \A h \in Handlers :
        (handler[h].sessionID # "" /\ handler[h].body # NoBody /\ ~handler[h].body.valid) =>
            /\ handler[h].pc = "done"
            /\ handler[h].status = returned[h][1].StatusCode
            /\ handler[h].status = UpstreamStatus(exchange[h])
            /\ handler[h].out = "upstream body"
            /\ handler[h].err = "nil"
            /\ "UpdateSessionTokens" \notin SessionOps(h)
            /\ ~handler[h].recorded

\* a request of session a was answered with the upstream's 200 and a body that
\* is no JSON; another request of a recorded (10,0,10): a counts 1 request
C26_Witness ==
    \E g, h \in Handlers :
        /\ handler[g].sessionID = "a"
        /\ handler[g].pc = "done"
        /\ handler[g].body = Body(FALSE, {}, 0, 0, 0)
        /\ handler[g].status = 200
        /\ handler[g].parseErr
        /\ handler[h].sessionID = "a"
        /\ handler[h].recorded
        /\ handler[h].body = Body(TRUE, UsageFields, 10, 0, 10)
        /\ StoreView["a"].RequestCount = 1
        /\ StoreView["a"].TotalTokens = 10

\* the handlers whose request for id was sent into the queue
ForwardedFor(id) ==
    { h \in Handlers : handler[h].sessionID = id /\ Enqueued(h) }

\* the total_tokens a body reports: zero when the usage object or the field is absent
ReportedTotal(b) == IF "total_tokens" \in b.present THEN b.vals["total_tokens"] ELSE 0

C31_FullQueueWaitsAndIsAnswered ==
    \A r \in AllReqs :
        (Len(ch) = ChanCap /\ phase[r] = "new") ~> (Len(returned[r]) = 1)

\* the number of responses sent so far on the Reply channel of request r
SentOn(r) == Len(reply[reqs[r].Reply]) + Len(returned[r])

(***************************************************************************)
(* C32. Every Push makes a Reply channel of its own, no two requests have  *)
(* the same one; nothing is sent on it before handle has ended, so the one *)
(* send of handle finds the channel empty and does not wait for the Push   *)
(* to receive; and when handle has ended, after a request that could not   *)
(* be built, a failed exchange or an answered one, exactly one response    *)
(* has been sent on it.                                                    *)
(***************************************************************************)
C32_OneShotReply ==
    \A r \in Reqs :
        phase[r] # "new" =>
            /\ reqs[r].Reply # NilChan
            /\ \A o \in Reqs \ {r} : phase[o] # "new" => reqs[o].Reply # reqs[r].Reply
            /\ Len(reply[reqs[r].Reply]) <= ReplyCap
            /\ phase[r] \in {"QUEUED", "ADMITTED", "IN_FLIGHT"} =>
                   /\ SentOn(r) = 0
                   /\ CanSendReply(reqs[r].Reply)
            /\ phase[r] \in {"COMPLETED", "FAILED"} => SentOn(r) = 1

\* the response to a request that could not be built and the response of a failed
\* exchange both wait in their channels, neither Push has received yet
C32_Witness ==
    \E a, b \in Reqs :
        /\ phase[a] = "FAILED" /\ exchange[a] = "none"
        /\ phase[b] = "FAILED" /\ exchange[b] = "transport error"
        /\ returned[a] = <<>> /\ returned[b] = <<>>
        /\ Len(reply[reqs[a].Reply]) = 1
        /\ Len(reply[reqs[b].Reply]) = 1
        /\ reqs[a].Reply # reqs[b].Reply

(***************************************************************************)
(* C33. The variable a caller passed to Push and the entries of its        *)
(* Headers stay as the caller made them, during the exchange and after     *)
(* Push has returned; the request handle sends upstream carries the        *)
(* caller's headers, with Authorization set to the configured credential   *)
(* whether the caller sent an Authorization of its own or none.            *)
(***************************************************************************)
C33_CallerRequestUnchanged ==
    \A r \in Reqs :
        phase[r] # "new" =>
            /\ callerReq[r] = [reqs[r] EXCEPT !.Reply = NilChan]
            /\ headerMaps[r] = HeaderMap(callerReq[r].Headers)
            /\ phase[r] \in {"IN_FLIGHT", "COMPLETED"} \/ exchange[r] # "none" =>
                   /\ DOMAIN outbound[r] = DOMAIN headerMaps[r] \cup {"Authorization"}
                   /\ outbound[r]["Authorization"] = Credential
                   /\ \A k \in DOMAIN headerMaps[r] \ {"Authorization"} :
                          outbound[r][k] = headerMaps[r][k]

\* a Push of a request with an Authorization of the caller's own has returned the
\* upstream's answer: the upstream got the credential, the caller's entry is its own
C33_Witness ==
    \E r \in Reqs :
        /\ returned[r] # <<>>
        /\ exchange[r] = "ok"
        /\ "Authorization" \in DOMAIN headerMaps[r]
        /\ headerMaps[r]["Authorization"] = "Bearer caller"
        /\ outbound[r]["Authorization"] = Credential
        /\ outbound[r]["X-Custom-Header"] = "custom-value"
        /\ callerReq[r].Reply = NilChan

(***************************************************************************)
(* C34. When several requests of a session the store does not hold each    *)
(* look the session up, do not find it and create it, every one of their   *)
(* CreateSession calls returns the session without error unless the        *)
(* database itself failed the call: the first makes a zero session, a      *)
(* later one returns what the store holds by then, counters accumulated in *)
(* between included, and changes nothing; the id has one stored session.   *)
(***************************************************************************)
C34_ConcurrentFirstRequests ==
    [][\A h \in Handlers :
        (/\ handler[h].pc = "create"
         /\ call[h].op = "CreateSession"
         /\ pc[h] # "returned"
         /\ pc'[h] = "returned") =>
            LET id == call[h].id
            IN  IF handler'[h].failedOp = "CreateSession"
                THEN StoreView' = StoreView
                ELSE /\ ret'[h].err = "nil"
                     /\ id \in DOMAIN StoreView'
                     /\ StoreView'[id] = StoredOrZero(id)
                     /\ ret'[h].val[id] = StoreView'[id]
                     /\ \A o \in DOMAIN StoreView' \ {id} :
                            o \in DOMAIN StoreView /\ StoreView'[o] = StoreView[o]
      ]_vars

\* two requests of session a both missed it and both created it; the second
\* CreateSession came after the first request had recorded 10 tokens, and
\* returned the session with them
C34_Witness ==
    \E g, h \in Handlers :
        /\ g # h
        /\ handler[g].ops = <<"GetSession", "CreateSession", "Push", "UpdateSessionTokens">>
        /\ handler[g].recorded
        /\ handler[h].ops = <<"GetSession", "CreateSession">>
        /\ handler[h].pc = "create"
        /\ Holds(h, "CreateSession", "a")
        /\ ret[h].err = "nil"
        /\ ret[h].val["a"] = SessionData("a", 10, 0, 10, 1)
        /\ StoreView["a"] = SessionData("a", 10, 0, 10, 1)

\* caller p's call of one of ops returns in this step
Returns(p, ops) == call[p].op \in ops /\ pc[p] # "returned" /\ pc'[p] = "returned"

(***************************************************************************)
(* C35. The store keeps one session for an id and never drops one: no step *)
(* takes an id out of the store, a CreateSession or UpdateSessionTokens    *)
(* that returns without error leaves its id stored, every stored session   *)
(* carries the id it is stored under, and a ListSessions returns one entry *)
(* for each stored id, under that id, and no other.                        *)
(***************************************************************************)
C35_OneSessionPerId ==
    /\ [](\A id \in DOMAIN StoreView : StoreView[id].SessionID = id)
    /\ [][/\ DOMAIN StoreView \subseteq DOMAIN StoreView'
          /\ \A p \in Procs :
                /\ (Returns(p, {"CreateSession", "UpdateSessionTokens"}) /\ ret'[p].err = "nil")
                       => call[p].id \in DOMAIN StoreView'
                /\ Returns(p, {"ListSessions"}) =>
                       /\ ret'[p].err = "nil"
                       /\ DOMAIN ret'[p].val = DOMAIN StoreView
                       /\ \A id \in DOMAIN StoreView :
                              /\ ret'[p].val[id] = StoreView[id]
                              /\ ret'[p].val[id].SessionID = id
         ]_vars

\* a ListSessions has returned the two sessions of the store, a made by a
\* CreateSession and b by an UpdateSessionTokens
C35_Witness ==
    \E p \in Procs :
        /\ pc[p] = "returned"
        /\ ret[p].op = "ListSessions"
        /\ DOMAIN ret[p].val = {"a", "b"}
        /\ ret[p].val["a"] = ZeroSession("a")
        /\ ret[p].val["b"].RequestCount = 1
        /\ DOMAIN StoreView = {"a", "b"}

\* the store holds something else for id after the step than before it
Changed(id) ==
    \/ (id \in DOMAIN StoreView) # (id \in DOMAIN StoreView')
    \/ id \in DOMAIN StoreView /\ id \in DOMAIN StoreView' /\ StoreView'[id] # StoreView[id]

(***************************************************************************)
(* C36. A step changes the stored session of an id only as a step of a     *)
(* CreateSession or UpdateSessionTokens call on that very id: the sessions *)
(* of all other ids are after the step what they were before it, also      *)
(* while calls on other ids are under way.                                 *)
(***************************************************************************)
C36_OnlyOwnSessionChanges ==
    [][\A id \in IDs :
        Changed(id) =>
            \E p \in Procs :
                /\ call[p].id = id
                /\ call[p].op \in {"CreateSession", "UpdateSessionTokens"}
                /\ pc'[p] # pc[p]
      ]_vars

\* an UpdateSessionTokens on b has returned while one on a is under way: b
\* counts its request and a is still the zero session it was created as
C36_Witness ==
    \E p, q \in Procs :
        /\ call[p].op = "UpdateSessionTokens"
        /\ call[p].id = "a"
        /\ pc[p] \notin {"idle", "returned"}
        /\ Holds(q, "UpdateSessionTokens", "b")
        /\ "a" \in DOMAIN StoreView /\ "b" \in DOMAIN StoreView
        /\ StoreView["a"] = ZeroSession("a")
        /\ StoreView["b"].RequestCount = 1

(***************************************************************************)
(* C37. In the SQLite repository a CreateSession or UpdateSessionTokens    *)
(* that returns an error returns no session and leaves the table as it was *)
(* before the call, wherever the call failed: the table always holds, for  *)
(* every id, the sums of the usages of the updates that returned without   *)
(* error and nothing of the others; and a GetSession returns the committed *)
(* row, never the row a transaction wrote and has not committed.           *)
(***************************************************************************)
C37_AllOrNothing ==
    /\ [](backend = "sqlite" =>
             \A id \in IDs :
                 IF applied[id].n = 0
                 THEN StoredOrZero(id) = ZeroSession(id)
                 ELSE id \in DOMAIN db /\ db[id] = AppliedSession(id))
    /\ [][backend = "sqlite" =>
             \A p \in Handlers :
                 /\ (/\ Returns(p, {"CreateSession", "UpdateSessionTokens"})
                     /\ ret'[p].err # "nil") =>
                        /\ db' = db
                        /\ DOMAIN ret'[p].val = {}
                 /\ (Returns(p, {"GetSession"}) /\ ret'[p].err = "nil") =>
                        /\ call[p].id \in DOMAIN db
                        /\ ret'[p].val[call[p].id] = db[call[p].id]
         ]_vars

\* an UpdateSessionTokens of session a failed at its commit, after its upsert: the
\* client got 500 and a is the zero session its request had created
C37_Witness ==
    /\ backend = "sqlite"
    /\ \E h \in Handlers :
          /\ handler[h].failedOp = "UpdateSessionTokens"
          /\ handler[h].failedAt = "supd_commit"
          /\ handler[h].status = 500
          /\ handler[h].out = "Failed to update session"
    /\ applied["a"].n = 0
    /\ "a" \in DOMAIN db
    /\ db["a"] = ZeroSession("a")

(***************************************************************************)
(* C38. Once the queue is closed, the worker admits every request that is  *)
(* still queued, each no sooner than one interval after the one before,    *)
(* and then ends, when every goroutine that can run does; it does not end  *)
(* while a request is queued, and nothing is admitted after it has ended.  *)
(***************************************************************************)
C38_WorkerDrainsThenTerminates ==
    /\ \A r \in Reqs : (chClosed /\ phase[r] = "QUEUED") ~> (r \in Admitted)
    /\ chClosed ~> (worker.pc = "done")
    /\ [](worker.pc = "done" => ch = <<>> /\ \A r \in Reqs : phase[r] # "QUEUED")
    /\ [][/\ worker.pc = "done" => admitOrder' = admitOrder /\ worker'.pc = "done"
          /\ (chClosed /\ queue.interval > 0 /\ lastAdmit # Never /\ admitOrder' # admitOrder)
                 => now >= lastAdmit + queue.interval
         ]_vars

(***************************************************************************)
(* C39. HandleSingle answers a GET of /v1/session/{id}/status with the     *)
(* stored session of id (200), or 404 when the store has none; a GET of a  *)
(* path without session id, /sessions/status, with the listing of all      *)
(* stored sessions (200), not with 404; and any other method with 405,     *)
(* without a call into the session manager.                                *)
(***************************************************************************)
C39_HandleSingle ==
    [][\A p \in Procs :
        /\ (call[p].via = "HandleSingle" /\ Returns(p, {"GetSession"})) =>
               /\ call[p].id # ""
               /\ IF call[p].id \in DOMAIN StoreView
                  THEN /\ ret'[p].status = 200
                       /\ DOMAIN ret'[p].val = {call[p].id}
                       /\ ret'[p].val[call[p].id] = StoreView[call[p].id]
                  ELSE /\ ret'[p].status = 404
                       /\ DOMAIN ret'[p].val = {}
        /\ (call[p].via = "HandleSingle" /\ Returns(p, {"ListSessions"})) =>
               /\ call[p].id = ""
               /\ ret'[p].status = 200
               /\ DOMAIN ret'[p].val = DOMAIN StoreView
               /\ \A id \in DOMAIN StoreView : ret'[p].val[id] = StoreView[id]
        /\ (ret'[p] # ret[p] /\ ret'[p].status = 405) =>
               /\ call'[p] = NoCall
               /\ pc'[p] = "returned"
               /\ DOMAIN ret'[p].val = {}
               /\ <<sessions, mu, db, dbLock>>' = <<sessions, mu, db, dbLock>>
      ]_vars

\* one GET of /sessions/status was answered with the listing of the store, which
\* holds session a, and one GET of /v1/session/a/status with session a
C39_Witness ==
    \E p, q \in Procs :
        /\ pc[p] = "returned" /\ pc[q] = "returned"
        /\ ret[p].op = "ListSessions"
        /\ ret[p].status = 200
        /\ DOMAIN ret[p].val = {"a"}
        /\ ret[q].op = "GetSession"
        /\ ret[q].status = 200
        /\ DOMAIN ret[q].val = {"a"}
        /\ ret[q].val["a"] = ret[p].val["a"]

====
